---- MODULE Spec2Model ----
(***************************************************************************)
(* A model of the memory store (MemoryStore, v2 schema memories_v2), of    *)
(* its bulk import, of its search, and of the v2 tool handlers             *)
(* (memory-create / memory-search / memory-update) that call it.           *)
(*                                                                         *)
(* Time is in milliseconds, as Date.now() gives it.  An ISO timestamp      *)
(* produced by toISOString() is modelled by the millisecond it denotes     *)
(* (toISOString is injective on milliseconds).  SQLite's datetime() keeps  *)
(* whole seconds only, and yields NULL for a text it cannot parse.         *)
(***************************************************************************)
EXTENDS Integers, Sequences, FiniteSets, TLC

\* ---------------------------------------------------------------- bounds
MaxTicks == 1        \* how often the clock advances
MaxIds == 2          \* how many ids randomUUID() hands out
MaxImportIds == 5    \* the same, where batches are imported
MaxSearchIds == 5    \* the same, where the store is searched
MaxToolIds == 2      \* the same, where the tools' handlers interleave
MaxBoundaryIds == 2  \* the same, where the handlers meet the provider
MaxEmbedIds == 2     \* the same, where vectors of every kind are stored
MaxGenIds == 2       \* the same, where both generations' tools are called
MaxStartupIds == 2   \* the same, where the constructor runs first
MaxFtsIds == 2       \* the same, where the fts5 index is in use
MaxArgIds == 2       \* the same, where memory-search parses its arguments
MaxDatesIds == 2     \* the same, where dates and expiry are written
TickMs == 600        \* the clock's step: two reads may share a second

\* ------------------------------------------- values fixed by the source
DayMs == 86400000            \* 864e5
MaxEmbedding == 4096         \* normalizeEmbedding's cap
MaxSubject == 160            \* z.string().max(160)
MaxContent == 2000           \* z.string().max(2000)
ListWindow == 50             \* Math.max(50, ...) in search
MultText == 4                \* fetchMultiplier without a query vector
MultVec == 6                 \* fetchMultiplier with a query vector
SerialSubject == 160         \* truncate(item.subject, 160)
SerialContent == 280         \* truncate(item.content, 280)
MaxOwnedContent == 1000      \* z.string().max(1000) of memory.remember
MaxSensitivity == 32         \* z.array(z.string()).max(32)
MaxQuery == 1000             \* query: z.string().max(1000)
MaxK == 20                   \* k: z.number().int().positive().max(20)
defaultTopK == 6             \* createMemoryMcpServer({ defaultTopK = 6 })

StartMs == 2 * DayMs + 200   \* the clock at construction

Min(a, b) == IF a <= b THEN a ELSE b
Max(a, b) == IF a >= b THEN a ELSE b

\* -------------------------------------------------- optional JS values
Undef == [k |-> "undef"]                 \* undefined / absent property
Str(s) == [k |-> "str", s |-> s]         \* a string, as a sequence of characters
Num(h) == [k |-> "num", halves |-> h]    \* a finite number, in halves (h / 2)
NonFiniteNum == [k |-> "nonfinite"]      \* NaN, Infinity
Vec(v) == [k |-> "vec", v |-> v]         \* an array of numbers

\* one component of a vector: a finite number or a non-finite one
Fin(x) == [f |-> TRUE, x |-> x]
NonFin == [f |-> FALSE, x |-> 0]

\* ------------------------------------------------------ SQL column values
SqlNull == [k |-> "null"]
Iso(ms) == [k |-> "iso", ms |-> ms]      \* "2024-01-01T00:00:00.000Z"
Rfc(ms) == [k |-> "rfc", ms |-> ms]      \* "Mon, 01 Jan 2024 00:00:00 GMT"

\* datetime(x): whole seconds of an ISO-8601 text, NULL for any other text
SqlDatetime(e) ==
  IF e.k = "iso" THEN [k |-> "sec", s |-> e.ms \div 1000] ELSE SqlNull

\* expires_at is not null and datetime(expires_at) <= datetime('now')
SweepMatches(e, nowMs) ==
  /\ e.k # "null"
  /\ SqlDatetime(e).k # "null"
  /\ SqlDatetime(e).s <= nowMs \div 1000

\* Math.trunc(ttlDays), ttlDays given in halves
TruncHalves(h) == IF h >= 0 THEN h \div 2 ELSE 0 - ((0 - h) \div 2)

\* typeof ttl === 'number' && Number.isFinite(ttl)
\*   ? new Date(Date.now() + Math.trunc(ttl) * 864e5).toISOString() : null
ExpiryFromTtl(ttl, nowMs) ==
  IF ttl.k = "num" THEN Iso(nowMs + TruncHalves(ttl.halves) * DayMs) ELSE SqlNull

\* --------------------------------------------------------- embeddings
\* typeof value === "number" && Number.isFinite(value)
IsFiniteNumber(c) == c.f

\* the loop of normalizeEmbedding: the finite components in their order,
\* up to the first 4096 of them, after those in `acc`
CleanVec(v, acc) ==
  LET cleaned == acc \o SelectSeq(v, IsFiniteNumber)
  IN SubSeq(cleaned, 1, Min(Len(cleaned), MaxEmbedding))

normalizeKeepsAll(vec) == vec

\* normalizeEmbedding: drop non-finite components, cap, undefined when empty
normalizeEmbedding(vec) ==
  IF vec.k # "vec" THEN Undef
  ELSE LET cleaned == CleanVec(vec.v, <<>>)
       IN IF Len(cleaned) > 0 THEN Vec(cleaned) ELSE Undef

\* embedding ? JSON.stringify(embedding) : null  (the column's value)
EmbeddingColumn(norm) == IF norm.k = "vec" THEN norm ELSE SqlNull

\* parseEmbedding: JSON.parse of the column, normalised again
parseEmbedding(raw) ==
  IF raw.k = "null" THEN Undef ELSE normalizeEmbedding(raw)

\* cosineSimilarity(a, b) = dot / sqrt(normA * normB), kept as its parts
RECURSIVE SumOver(_, _, _, _)
SumOver(a, b, i, what) ==
  IF i = 0 THEN 0
  ELSE SumOver(a, b, i - 1, what) +
       (IF a[i].f /\ b[i].f
          THEN (CASE what = "dot" -> a[i].x * b[i].x
                  [] what = "a" -> a[i].x * a[i].x
                  [] OTHER -> b[i].x * b[i].x)
          ELSE 0)

SimZero == [dot |-> 0, na |-> 1, nb |-> 1]
\* the quotient taken whatever the norms are: 0 / 0 is NaN
cosineUnguarded(a, b) ==
  IF a.k # "vec" \/ b.k # "vec" THEN SimZero
  ELSE LET len == Min(Len(a.v), Len(b.v))
       IN [dot |-> SumOver(a.v, b.v, len, "dot"),
           na |-> SumOver(a.v, b.v, len, "a"), nb |-> SumOver(a.v, b.v, len, "b")]

cosineSimilarity(a, b) ==
  IF a.k # "vec" \/ b.k # "vec" THEN SimZero
  ELSE LET len == Min(Len(a.v), Len(b.v))
           na == SumOver(a.v, b.v, len, "a")
           nb == SumOver(a.v, b.v, len, "b")
       IN IF len = 0 \/ na = 0 \/ nb = 0 THEN SimZero
          ELSE [dot |-> SumOver(a.v, b.v, len, "dot"), na |-> na, nb |-> nb]

\* s1 > s2 for two similarities (compared without taking the square root)
SignedSq(s) == IF s.dot >= 0 THEN s.dot * s.dot ELSE 0 - s.dot * s.dot
SimGreater(s1, s2) ==
  SignedSq(s1) * (s2.na * s2.nb) > SignedSq(s2) * (s1.na * s1.nb)

\* ------------------------------------------------------------------ text
\* A string is a sequence of characters; a character is a one-symbol atom.
\* "e_acute" / "E_acute" stand for a non-ASCII letter and its capital.
Backslash == "\\"

AsciiLower(c) == CASE c = "A" -> "a" [] c = "B" -> "b" [] OTHER -> c
UnicodeLower(c) == IF c = "E_acute" THEN "e_acute" ELSE AsciiLower(c)

IsSpace(c) == c = " "

\* String.prototype.trim
RECURSIVE TrimLeft(_)
TrimLeft(s) == IF s # <<>> /\ IsSpace(Head(s)) THEN TrimLeft(Tail(s)) ELSE s
RECURSIVE TrimRight(_)
TrimRight(s) ==
  IF s # <<>> /\ IsSpace(s[Len(s)]) THEN TrimRight(SubSeq(s, 1, Len(s) - 1)) ELSE s
Trim(s) == TrimRight(TrimLeft(s))

\* query?.trim() ?? ""
trimmedQuery(query) == IF query.k = "str" THEN Trim(query.s) ELSE <<>>

\* .replace(/\\/g, "\\\\").replace(/%/g, "\\%").replace(/_/g, "\\_")
RECURSIVE EscapeNoUnderscore(_)
EscapeNoUnderscore(q) ==
  IF q = <<>> THEN <<>>
  ELSE (IF Head(q) \in {Backslash, "%"} THEN <<Backslash, Head(q)>> ELSE <<Head(q)>>)
       \o EscapeNoUnderscore(Tail(q))
RECURSIVE EscapeLike(_)
EscapeLike(q) ==
  IF q = <<>> THEN <<>>
  ELSE (IF Head(q) \in {Backslash, "%", "_"} THEN <<Backslash, Head(q)>> ELSE <<Head(q)>>)
       \o EscapeLike(Tail(q))

\* `%${esc}%`
LikePattern(q) == <<"%">> \o EscapeLike(q) \o <<"%">>

\* x LIKE p ESCAPE '\' as SQLite evaluates it: % any run, _ any one
\* character, an escaped character itself; letters compare without case for
\* ASCII only.
RECURSIVE SqlLike(_, _)
SqlLike(p, t) ==
  IF p = <<>> THEN t = <<>>
  ELSE IF Head(p) = "%"
    THEN SqlLike(Tail(p), t) \/ (t # <<>> /\ SqlLike(p, Tail(t)))
  ELSE IF t = <<>> THEN FALSE
  ELSE IF Head(p) = Backslash /\ Len(p) >= 2
    THEN AsciiLower(p[2]) = AsciiLower(Head(t)) /\ SqlLike(SubSeq(p, 3, Len(p)), Tail(t))
  ELSE IF Head(p) = "_" THEN SqlLike(Tail(p), Tail(t))
  ELSE AsciiLower(Head(p)) = AsciiLower(Head(t)) /\ SqlLike(Tail(p), Tail(t))

\* ------------------------------------------------- the full-text index
\* unicode61 tokenizer: letters are token characters, folded to lower case
\* with diacritics removed; everything else separates tokens.
IsTokenChar(c) == c \in {"a", "A", "b", "B", "x", "e_acute", "E_acute"}
FtsFold(c) == IF c \in {"e_acute", "E_acute"} THEN "e" ELSE AsciiLower(c)

RECURSIVE TokensOf(_, _, _)
TokensOf(t, cur, acc) ==
  IF t = <<>> THEN (IF cur = <<>> THEN acc ELSE Append(acc, cur))
  ELSE IF IsTokenChar(Head(t))
    THEN TokensOf(Tail(t), Append(cur, FtsFold(Head(t))), acc)
  ELSE TokensOf(Tail(t), <<>>, IF cur = <<>> THEN acc ELSE Append(acc, cur))
Tokens(t) == TokensOf(t, <<>>, <<>>)

\* the postings one row contributes: (rowid, column, position, token)
Postings(rowid, subject, content) ==
  {[rowid |-> rowid, col |-> "subject", pos |-> i, tok |-> Tokens(subject)[i]] :
      i \in 1..Len(Tokens(subject))}
  \cup
  {[rowid |-> rowid, col |-> "content", pos |-> i, tok |-> Tokens(content)[i]] :
      i \in 1..Len(Tokens(content))}

\* the words of a MATCH expression: barewords separated by spaces
RECURSIVE WordsOf(_, _, _)
WordsOf(q, cur, acc) ==
  IF q = <<>> THEN (IF cur = <<>> THEN acc ELSE Append(acc, cur))
  ELSE IF IsSpace(Head(q))
    THEN WordsOf(Tail(q), <<>>, IF cur = <<>> THEN acc ELSE Append(acc, cur))
  ELSE WordsOf(Tail(q), Append(cur, Head(q)), acc)

\* fts5 accepts a bareword of letters, digits and underscores; any other
\* character outside a quoted string is a syntax error
FtsAccepts(q) == \A i \in 1..Len(q) : IsTokenChar(q[i]) \/ q[i] \in {"_", " "}

\* ----------------------------------------------------------------- state
VARIABLES
  rows,     \* table memories_v2: id -> row
  fts,      \* index memories_v2_fts: a set of postings
  ftsOK,    \* the fts5 table and its triggers could be created
  now,      \* Date.now()
  nextId,   \* the next value randomUUID() returns
  txn,      \* the connection's open transaction (its snapshot), or none
  imp,      \* the importAll call in flight
  last,     \* the store call that completed last
  hs,       \* the tool handlers in flight
  boot,     \* the constructor's position, and what it found
  memories  \* table memories of the owner-scoped store: id -> row

vars == <<rows, fts, ftsOK, now, nextId, txn, imp, last, hs, boot, memories>>

NoTxn == [k |-> "none"]
NoCall == [op |-> "none"]
ImpIdle == [pc |-> "idle"]
HandlerIdle == [pc |-> "idle"]
Handlers == {"search", "create", "update", "update2", "remember", "export", "recall"}

\* the constructor has run: the table exists and ready is resolved
Booted == [pc |-> "ready", table |-> TRUE, fatal |-> FALSE]

InitStore ==
  /\ rows = <<>>
  /\ fts = {}
  /\ now = StartMs
  /\ nextId = 1
  /\ txn = NoTxn
  /\ imp = ImpIdle
  /\ last = NoCall
  /\ hs = [h \in Handlers |-> HandlerIdle]
  /\ memories = <<>>

\* the constructor: the table is created; creating the fts5 table may fail
\* (Init: it failed, the index is absent; InitFts: either outcome)
Init == InitStore /\ boot = Booted /\ ftsOK = FALSE
InitFts == InitStore /\ boot = Booted /\ ftsOK \in BOOLEAN

Ids == DOMAIN rows

\* the rowid SQLite gives a new row of a table without an integer key
NextRowid(rws) ==
  IF DOMAIN rws = {} THEN 1
  ELSE 1 + CHOOSE m \in {rws[i].rowid : i \in DOMAIN rws} :
             \A i \in DOMAIN rws : rws[i].rowid <= m

rowToItem(row) ==
  [id |-> row.id,
   subject |-> row.subject,
   content |-> row.content,
   dateCreated |-> row.date_created,
   dateUpdated |-> row.date_updated,
   expiresAt |-> IF row.expires_at.k = "null" THEN Undef ELSE row.expires_at,
   embedding |-> parseEmbedding(row.embedding)]

\* trigger memories_v2_ai
TriggerInsert(f, row) ==
  IF ftsOK THEN f \cup Postings(row.rowid, row.subject, row.content) ELSE f

\* trigger memories_v2_au.  The index is an external-content table: to
\* remove the old entries fts5 reads the row from memories_v2, which holds
\* the new values already; the entries of terms the row no longer has stay.
TriggerUpdate(f, row) ==
  IF ftsOK
    THEN LET new == Postings(row.rowid, row.subject, row.content)
             terms == {p.tok : p \in new}
         IN {p \in f : ~(p.rowid = row.rowid /\ p.tok \in terms)} \cup new
    ELSE f

\* trigger memories_v2_ad: fts5 looks the deleted row up in memories_v2,
\* finds none, and removes no entry
TriggerDelete(f, row) == f

RestrictNone(rws, keep) == <<>>
Restrict(rws, keep) == [i \in keep |-> rws[i]]

\* ------------------------------------------------------------ the clock
Tick ==
  /\ now < StartMs + MaxTicks * TickMs
  /\ now' = now + TickMs
  /\ UNCHANGED <<rows, fts, ftsOK, boot, memories, nextId, txn, imp, last, hs>>

\* ------------------------------------------------- store: one statement
\* insert(opts): a NOT NULL column given undefined makes the statement fail
NewRowUpdatedLater(id, rws, opts, nowMs) ==
  [id |-> id, rowid |-> NextRowid(rws),
   subject |-> opts.subject.s, content |-> opts.content.s,
   date_created |-> nowMs, date_updated |-> nowMs + 1,
   expires_at |-> ExpiryFromTtl(opts.ttlDays, nowMs),
   embedding |-> EmbeddingColumn(normalizeEmbedding(opts.embedding))]
NewRow(id, rws, opts, nowMs) ==
  [id |-> id, rowid |-> NextRowid(rws),
   subject |-> opts.subject.s, content |-> opts.content.s,
   date_created |-> nowMs, date_updated |-> nowMs,
   expires_at |-> ExpiryFromTtl(opts.ttlDays, nowMs),
   embedding |-> EmbeddingColumn(normalizeEmbedding(opts.embedding))]

InsertOk(opts) == opts.subject.k = "str" /\ opts.content.k = "str"

Insert(opts) ==
  /\ nextId' = nextId + 1
  /\ IF InsertOk(opts)
       THEN LET row == NewRow(nextId, rows, opts, now)
            IN /\ rows' = (nextId :> row) @@ rows
               /\ fts' = TriggerInsert(fts, row)
               /\ last' = [op |-> "insert", ok |-> TRUE, id |-> nextId]
       ELSE /\ last' = [op |-> "insert", ok |-> FALSE]
            /\ UNCHANGED <<rows, fts>>
  /\ UNCHANGED <<ftsOK, boot, memories, now, txn, imp>>

\* update(id, patch): the assignments of the SET clause, in order; when a
\* column is assigned twice SQLite keeps the rightmost assignment
PatchFieldsSubjectAsContent(patch, nowMs) ==
  (IF patch.subject.k = "str"
     THEN <<[col |-> "subject", val |-> patch.subject.s], [col |-> "content", val |-> patch.subject.s]>>
     ELSE <<>>)
  \o <<[col |-> "date_updated", val |-> nowMs]>>
PatchFieldsTouchCreated(patch, nowMs) ==
  <<[col |-> "date_created", val |-> nowMs], [col |-> "date_updated", val |-> nowMs]>>
PatchFields(patch, nowMs) ==
  (IF patch.subject.k = "str" THEN <<[col |-> "subject", val |-> patch.subject.s]>> ELSE <<>>)
  \o (IF patch.content.k = "str" THEN <<[col |-> "content", val |-> patch.content.s]>> ELSE <<>>)
  \o (IF patch.ttlDays.k # "undef"
        THEN <<[col |-> "expires_at", val |-> ExpiryFromTtl(patch.ttlDays, nowMs)]>> ELSE <<>>)
  \o (IF patch.expiresAt.k \in {"iso", "rfc"}
        THEN <<[col |-> "expires_at", val |-> patch.expiresAt]>> ELSE <<>>)
  \o (IF patch.embedding.k = "vec"
        THEN <<[col |-> "embedding",
                val |-> EmbeddingColumn(normalizeEmbedding(patch.embedding))]>> ELSE <<>>)
  \o <<[col |-> "date_updated", val |-> nowMs]>>

RECURSIVE ApplyFieldsFirstWins(_, _)
ApplyFieldsFirstWins(row, fields) ==
  IF fields = <<>> THEN row
  ELSE [ApplyFieldsFirstWins(row, Tail(fields)) EXCEPT ![Head(fields).col] = Head(fields).val]

RECURSIVE ApplyFields(_, _)
ApplyFields(row, fields) ==
  IF fields = <<>> THEN row
  ELSE ApplyFields([row EXCEPT ![Head(fields).col] = Head(fields).val], Tail(fields))

Update(id, patch) ==
  LET fields == PatchFields(patch, now)
  IN /\ IF Len(fields) = 0 \/ id \notin Ids
          THEN UNCHANGED <<rows, fts>>
          ELSE LET row == ApplyFields(rows[id], fields)
               IN /\ rows' = [rows EXCEPT ![id] = row]
                  /\ fts' = TriggerUpdate(fts, row)
     /\ last' = [op |-> "update"]
     /\ UNCHANGED <<ftsOK, boot, memories, now, nextId, txn, imp>>

Delete(id) ==
  /\ rows' = Restrict(rows, Ids \ {id})
  /\ fts' = IF id \in Ids THEN TriggerDelete(fts, rows[id]) ELSE fts
  /\ last' = [op |-> "delete"]
  /\ UNCHANGED <<ftsOK, boot, memories, now, nextId, txn, imp>>

\* cleanupExpired(): delete from memories_v2 where expires_at is not null
\* and datetime(expires_at) <= datetime('now')
Swept(rws, nowMs) == {i \in DOMAIN rws : SweepMatches(rws[i].expires_at, nowMs)}

CleanupExpired ==
  /\ rows' = Restrict(rows, Ids \ Swept(rows, now))
  /\ fts' = fts
  /\ last' = [op |-> "cleanupExpired"]
  /\ UNCHANGED <<ftsOK, boot, memories, now, nextId, txn, imp>>

\* get(id): the item, or undefined.  `last` names the call; what it returned
\* is GetResult(id) for as long as `last` names it (no row changed since)
GetResult(id) == IF id \in Ids THEN rowToItem(rows[id]) ELSE Undef

Get(id) ==
  /\ last' = [op |-> "get", id |-> id]
  /\ UNCHANGED <<rows, fts, ftsOK, boot, memories, now, nextId, txn, imp>>

\* ------------------------------------------------------- store: queries
Perms(S) ==
  {s \in [1..Cardinality(S) -> S] : \A i, j \in 1..Cardinality(S) : i # j => s[i] # s[j]}

\* rows in rowid order, the order of a select without order by
ByRowid(S) ==
  {s \in Perms(S) : \A i \in 1..(Len(s) - 1) : rows[s[i]].rowid < rows[s[i + 1]].rowid}

\* where each id lo..hi comes when S is put in date_updated order, latest
\* first, rows of equal date_updated by id (0 for an id outside S)
RECURSIVE DatePlaces(_, _, _)
DatePlaces(S, lo, hi) ==
  IF lo > hi THEN <<>>
  ELSE IF lo = hi
    THEN <<IF lo \in S
             THEN 1 + Cardinality({y \in S :
                        \/ rows[y].date_updated > rows[lo].date_updated
                        \/ (rows[y].date_updated = rows[lo].date_updated /\ y < lo)})
             ELSE 0>>
  ELSE DatePlaces(S, lo, (lo + hi) \div 2) \o DatePlaces(S, (lo + hi) \div 2 + 1, hi)

RECURSIVE InDateOrder(_, _, _, _)
InDateOrder(S, place, lo, hi) ==
  IF lo > hi THEN <<>>
  ELSE IF lo = hi THEN <<CHOOSE x \in S : place[x] = lo>>
  ELSE InDateOrder(S, place, lo, (lo + hi) \div 2)
         \o InDateOrder(S, place, (lo + hi) \div 2 + 1, hi)

\* every order of the first n of c that keeps date_updated non-increasing:
\* the n-th may come anywhere among the rows that share its date_updated
RECURSIVE TieOrders(_, _)
TieOrders(c, n) ==
  IF n = 0 THEN {<<>>}
  ELSE LET x == c[n]
           g == 1 + Cardinality({i \in 1..(n - 1) :
                                   rows[c[i]].date_updated > rows[x].date_updated})
       IN {SubSeq(t, 1, p - 1) \o <<x>> \o SubSeq(t, p, n - 1) :
             t \in TieOrders(c, n - 1), p \in g..n}

DescOrders(S) ==
  LET n == Cardinality(S)
      place == DatePlaces(S, 1, nextId - 1)
      c == InDateOrder(S, place, 1, n)
  IN IF Len(c) < n THEN {} ELSE TieOrders(c, n)

\* order by date_updated desc: rows of equal date_updated come in any order
ByDateUpdatedDesc(S) == DescOrders(S)

\* limit ?: a negative limit is no limit
SqlLimit(s, n) == IF n < 0 THEN s ELSE SubSeq(s, 1, Min(n, Len(s)))

\* Array.prototype.slice(0, k)
JsSlice(s, k) ==
  IF k >= 0 THEN SubSeq(s, 1, Min(k, Len(s))) ELSE SubSeq(s, 1, Max(Len(s) + k, 0))

ItemsOf(s) == [i \in 1..Len(s) |-> rowToItem(rows[s[i]])]

\* list(limit)
ListResults(limit) == {SqlLimit(s, limit) : s \in ByDateUpdatedDesc(Ids)}

List(limit) ==
  /\ last' = [op |-> "list", limit |-> limit]
  /\ UNCHANGED <<rows, fts, ftsOK, boot, memories, now, nextId, txn, imp>>

\* memories_v2_fts match ?: every word of the query is a phrase of the
\* tokens it splits into, found in one column of the row's entries
HasPhrase(f, rowid, ph) ==
  /\ ph # <<>>
  /\ \E p \in f :
       /\ p.rowid = rowid
       /\ \A j \in 1..Len(ph) :
            [rowid |-> rowid, col |-> p.col, pos |-> p.pos + j - 1, tok |-> ph[j]] \in f

FtsMatch(f, rowid, q) ==
  LET words == WordsOf(q, <<>>, <<>>)
  IN /\ words # <<>>
     /\ \A w \in 1..Len(words) : HasPhrase(f, rowid, Tokens(words[w]))

\* subject like ? escape '\' or content like ? escape '\'
LikeMatches(q) ==
  {i \in Ids : SqlLike(LikePattern(q), rows[i].subject)
               \/ SqlLike(LikePattern(q), rows[i].content)}

\* .map((item) => ({ item, sim: cosineSimilarity(queryEmbedding, item.embedding) }))
RECURSIVE SimsOf(_, _, _, _)
SimsOf(s, qe, lo, hi) ==
  IF lo > hi THEN <<>>
  ELSE IF lo = hi THEN <<cosineSimilarity(qe, rowToItem(rows[s[lo]]).embedding)>>
  ELSE SimsOf(s, qe, lo, (lo + hi) \div 2) \o SimsOf(s, qe, (lo + hi) \div 2 + 1, hi)

\* where a stable descending sort puts the elements lo..hi
RECURSIVE PlacesOf(_, _, _)
PlacesOf(sim, lo, hi) ==
  IF lo > hi THEN <<>>
  ELSE IF lo = hi
    THEN <<1 + Cardinality({j \in 1..Len(sim) :
                              \/ SimGreater(sim[j], sim[lo])
                              \/ (~SimGreater(sim[lo], sim[j]) /\ j < lo)})>>
  ELSE PlacesOf(sim, lo, (lo + hi) \div 2) \o PlacesOf(sim, (lo + hi) \div 2 + 1, hi)

\* .sort((a, b) => b.sim - a.sim): the sort is stable
SortBySim(s, qe) ==
  LET place == PlacesOf(SimsOf(s, qe, 1, Len(s)), 1, Len(s))
  IN [r \in 1..Len(s) |-> s[CHOOSE i \in 1..Len(s) : place[i] = r]]

RerankNoSlice(s, qe, k) == SortBySim(s, qe)
Rerank(s, qe, k) == JsSlice(SortBySim(s, qe), k)

fetchMultiplier(qe) == IF qe.k = "vec" THEN MultVec ELSE MultText

\* the rows search(query, k, embedding) may return, as ids in order, each
\* with the branch that produced it
SearchResults(query, k, embedding) ==
  LET tq == trimmedQuery(query)
      hasQuery == Len(tq) > 0
      qe == normalizeEmbedding(embedding)
      mult == fetchMultiplier(qe)
      finish(s) == IF qe.k = "vec" THEN Rerank(s, qe, k) ELSE s
  IN IF ~hasQuery /\ qe.k = "vec"
       THEN {[path |-> "vector", ids |-> Rerank(SqlLimit(s, Max(k * mult, ListWindow)), qe, k)] :
               s \in ByDateUpdatedDesc({i \in Ids : rows[i].embedding.k # "null"})}
     ELSE IF ~hasQuery
       THEN {[path |-> "list", ids |-> s] : s \in ListResults(Max(ListWindow, k * mult))}
     ELSE IF ftsOK /\ FtsAccepts(tq)
       THEN {[path |-> "fts", ids |-> finish(SqlLimit(s, k * mult))] :
               s \in Perms({i \in Ids : FtsMatch(fts, rows[i].rowid, tq)})}
     ELSE {[path |-> "like", ids |-> finish(SqlLimit(s, k * mult))] :
               s \in ByDateUpdatedDesc(LikeMatches(tq))}

Search(query, k, embedding) ==
  /\ last' = [op |-> "search", query |-> query, k |-> k, embedding |-> embedding]
  /\ UNCHANGED <<rows, fts, ftsOK, boot, memories, now, nextId, txn, imp>>

\* ------------------------------------------------------------ importAll
\* One call at a time is modelled.  Its statements run on the connection
\* every other call uses, one await apart.
\* an import that stores no expiry
ImportRowNoExpiry(id, rws, it, nowMs) ==
  [id |-> id, rowid |-> NextRowid(rws),
   subject |-> it.subject.s, content |-> it.content.s,
   date_created |-> nowMs, date_updated |-> nowMs,
   expires_at |-> SqlNull,
   embedding |-> EmbeddingColumn(normalizeEmbedding(it.embedding))]

ImportRow(id, rws, it, nowMs) ==
  [id |-> id, rowid |-> NextRowid(rws),
   subject |-> it.subject.s, content |-> it.content.s,
   date_created |-> nowMs, date_updated |-> nowMs,
   expires_at |-> IF it.expiresAt.k = "undef" THEN SqlNull ELSE it.expiresAt,
   embedding |-> EmbeddingColumn(normalizeEmbedding(it.embedding))]

\* await this.run("BEGIN IMMEDIATE"), outside the try
ImportBegin(items) ==
  /\ imp.pc \in {"idle", "resolved", "rejected"}
  /\ IF txn.k = "none"
       THEN /\ txn' = [k |-> "open", rows |-> rows, fts |-> fts]
            /\ imp' = [pc |-> "loop", items |-> items, idx |-> 1, ids |-> <<>>]
       ELSE /\ txn' = txn
            /\ imp' = [pc |-> "rejected", err |-> "begin", rollback |-> "none"]
  /\ last' = [op |-> "importAll", step |-> "begin"]
  /\ UNCHANGED <<rows, fts, ftsOK, boot, memories, now, nextId>>

\* one turn of the loop: the insert of items[idx].  fault = "full" is the
\* engine failing the statement for want of space (SQLITE_FULL), which
\* rolls the open transaction back by itself.
ImportItem(fault) ==
  /\ imp.pc = "loop"
  /\ imp.idx <= Len(imp.items)
  /\ nextId' = nextId + 1
  /\ LET it == imp.items[imp.idx]
     IN IF fault = "full"
          THEN /\ rows' = IF txn.k = "open" THEN txn.rows ELSE rows
               /\ fts' = IF txn.k = "open" THEN txn.fts ELSE fts
               /\ txn' = NoTxn
               /\ imp' = [imp EXCEPT !.pc = "catch"] @@ [err |-> "full"]
        ELSE IF ~InsertOk(it)
          THEN /\ imp' = [imp EXCEPT !.pc = "catch"] @@ [err |-> "constraint"]
               /\ UNCHANGED <<rows, fts, txn>>
        ELSE LET row == ImportRow(nextId, rows, it, now)
             IN /\ rows' = (nextId :> row) @@ rows
                /\ fts' = TriggerInsert(fts, row)
                /\ imp' = [imp EXCEPT !.idx = imp.idx + 1, !.ids = Append(imp.ids, nextId)]
                /\ UNCHANGED txn
  /\ last' = [op |-> "importAll", step |-> "item"]
  /\ UNCHANGED <<ftsOK, boot, memories, now>>

\* await this.run("COMMIT")
ImportCommit ==
  /\ imp.pc = "loop"
  /\ imp.idx > Len(imp.items)
  /\ IF txn.k = "open"
       THEN imp' = [pc |-> "resolved"]
       ELSE imp' = [imp EXCEPT !.pc = "catch"] @@ [err |-> "commit"]
  /\ txn' = NoTxn
  /\ last' = [op |-> "importAll", step |-> "commit"]
  /\ UNCHANGED <<rows, fts, ftsOK, boot, memories, now, nextId>>

\* catch (err) { await this.run("ROLLBACK").catch(() => {}); throw err; }
\* ROLLBACK fails when no transaction is open; the failure is swallowed
RollbackKeepsRows(rws, t) == rws
RollbackRows(rws, t) == IF t.k = "open" THEN t.rows ELSE rws

ImportRollback ==
  /\ imp.pc = "catch"
  /\ rows' = RollbackRows(rows, txn)
  /\ fts' = IF txn.k = "open" THEN txn.fts ELSE fts
  /\ txn' = NoTxn
  /\ imp' = [pc |-> "rejected", err |-> imp.err,
              rollback |-> IF txn.k = "open" THEN "ok" ELSE "failed"]
  /\ last' = [op |-> "importAll", step |-> "rollback"]
  /\ UNCHANGED <<ftsOK, boot, memories, now, nextId>>

\* ----------------------------------------------------- tool memory.import
\* inputSchema: subject z.string().min(1).max(160), content min(1); a batch
\* the schema rejects never reaches the store.  The store call of the tool,
\* import(ownerId, items), is the transaction of importAll over its own table.
ZodItemNoMax(it) ==
  /\ it.subject.k = "str" /\ Len(it.subject.s) >= 1
  /\ it.content.k = "str" /\ Len(it.content.s) >= 1
ZodItemOk(it) ==
  /\ it.subject.k = "str" /\ Len(it.subject.s) >= 1 /\ Len(it.subject.s) <= MaxSubject
  /\ it.content.k = "str" /\ Len(it.content.s) >= 1

ZodImportOk(items) == \A i \in 1..Len(items) : ZodItemOk(items[i])

ToolImport(items) ==
  IF ZodImportOk(items)
    THEN ImportBegin(items)
    ELSE /\ imp.pc \in {"idle", "resolved", "rejected"}
         /\ imp' = [pc |-> "rejected", err |-> "validation", rollback |-> "none"]
         /\ last' = [op |-> "memory.import"]
         /\ UNCHANGED <<rows, fts, ftsOK, boot, memories, now, nextId, txn>>

\* ------------------------------------------------------------ the inputs
SubjA == <<"a">>
SubjB == <<"b">>
ContX == <<"x">>
ContB == <<"a", "b">>
VecX == Vec(<<Fin(1), Fin(0)>>)
VecY == Vec(<<Fin(0), Fin(1)>>)

NoPatch ==
  [subject |-> Undef, content |-> Undef, ttlDays |-> Undef, expiresAt |-> Undef,
   embedding |-> Undef]

AllIds == 1..MaxIds

\* ------------------------------------- Spec: the store's calls, one by one
InsertInputs ==
  {[subject |-> Str(SubjA), content |-> Str(ContX), ttlDays |-> Undef, embedding |-> Undef],
   [subject |-> Str(SubjB), content |-> Str(ContX), ttlDays |-> Num(2), embedding |-> VecX]}

UpdateInputs ==
  {NoPatch,
   [NoPatch EXCEPT !.subject = Str(SubjA)],
   [NoPatch EXCEPT !.subject = Str(SubjB)],
   [NoPatch EXCEPT !.content = Str(ContB), !.embedding = VecY]}

Next ==
  \/ Tick
  \/ \E o \in InsertInputs : nextId <= MaxIds /\ Insert(o) /\ UNCHANGED hs
  \/ \E id \in AllIds, p \in UpdateInputs : Update(id, p) /\ UNCHANGED hs
  \/ \E id \in AllIds : Delete(id) /\ UNCHANGED hs
  \/ \E id \in AllIds : Get(id) /\ UNCHANGED hs
  \/ List(200) /\ UNCHANGED hs
  \/ CleanupExpired /\ UNCHANGED hs

Spec == Init /\ [][Next]_vars

\* --------------------------- ExpirySpec: time-to-live, expiry and the sweep
\* explicit expiresAt strings a caller may pass: an ISO text in the second
\* the clock starts in, and an RFC 2822 text a day in the past
SoonIso == Iso(StartMs + 700)
PastIso == Iso(StartMs - DayMs)
PastRfc == Rfc(StartMs - DayMs - 200)
LaterIso == Iso(StartMs + 3 * DayMs)

\* a patch with a time to live and an explicit expiry
BothPatch == [NoPatch EXCEPT !.ttlDays = Num(2), !.expiresAt = LaterIso]

PlainItem(e) ==
  [subject |-> Str(SubjA), content |-> Str(ContX), expiresAt |-> e, embedding |-> Undef]

ExpiryInserts ==
  {[subject |-> Str(SubjA), content |-> Str(ContX), ttlDays |-> t, embedding |-> Undef] :
     t \in {Undef, Num(0 - 2)}}

ExpiryPatches ==
  {[NoPatch EXCEPT !.ttlDays = NonFiniteNum],
   [NoPatch EXCEPT !.expiresAt = SoonIso],
   [NoPatch EXCEPT !.expiresAt = PastRfc]}

ExpiryBatches == {<<PlainItem(PastIso)>>}

NextExpiry ==
  \/ Tick
  \/ \E o \in ExpiryInserts : nextId <= MaxIds /\ Insert(o) /\ UNCHANGED hs
  \/ \E id \in AllIds, p \in ExpiryPatches : Update(id, p) /\ UNCHANGED hs
  \/ \E b \in ExpiryBatches : nextId + Len(b) <= MaxIds + 1 /\ ImportBegin(b) /\ UNCHANGED hs
  \/ ImportItem("none") /\ UNCHANGED hs
  \/ ImportCommit /\ UNCHANGED hs
  \/ \E id \in AllIds : Delete(id) /\ UNCHANGED hs
  \/ \E id \in AllIds : Get(id) /\ UNCHANGED hs
  \/ List(200) /\ UNCHANGED hs
  \/ Search(Undef, 1, Undef) /\ UNCHANGED hs
  \/ CleanupExpired /\ UNCHANGED hs

ExpirySpec == Init /\ [][NextExpiry]_vars

\* ------------------------------------------------- ImportSpec: bulk import
LongSubject == [i \in 1..(MaxSubject + 1) |-> "a"]

PlainInsert ==
  [subject |-> Str(SubjB), content |-> Str(ContX), ttlDays |-> Undef, embedding |-> Undef]
GoodItem == PlainItem(Undef)
VecItem == [GoodItem EXCEPT !.embedding = VecX, !.expiresAt = SoonIso]
NoSubjectItem == [GoodItem EXCEPT !.subject = Undef]
LongItem == [GoodItem EXCEPT !.subject = Str(LongSubject)]

BatchOk == <<GoodItem, VecItem>>
BatchBad == <<GoodItem, NoSubjectItem>>
BatchLong == <<GoodItem, GoodItem, GoodItem, LongItem>>

HasOverlong(items) ==
  \E i \in 1..Len(items) :
    items[i].subject.k = "str" /\ Len(items[i].subject.s) > MaxSubject

NextImport ==
  \/ nextId <= MaxImportIds /\ Insert(PlainInsert) /\ UNCHANGED hs
  \/ \E b \in {BatchOk, BatchBad, BatchLong} :
       nextId + Len(b) <= MaxImportIds + 1 /\ ImportBegin(b) /\ UNCHANGED hs
  \/ \E b \in {BatchOk, BatchLong} :
       nextId + Len(b) <= MaxImportIds + 1 /\ ToolImport(b) /\ UNCHANGED hs
  \/ \E f \in {"none", "full"} : ImportItem(f) /\ UNCHANGED hs
  \/ ImportCommit /\ UNCHANGED hs
  \/ ImportRollback /\ UNCHANGED hs
  \/ List(200) /\ UNCHANGED hs

ImportSpec == Init /\ [][NextImport]_vars

\* ------------------------------------------------------ SearchSpec: search
TextAxB == <<"A", "x", "B">>
TextOdd == <<"a", "_", "b", "%", Backslash, "E_acute">>

SearchInserts ==
  {[subject |-> Str(TextAxB), content |-> Str(ContX), ttlDays |-> Undef, embedding |-> Undef],
   [subject |-> Str(TextOdd), content |-> Str(ContB), ttlDays |-> Undef, embedding |-> VecX]}

Queries ==
  {Undef, Str(<<" ">>), Str(ContB), Str(<<"a", "x", "b", " ">>), Str(<<"a", "_", "b">>),
   Str(<<"%">>), Str(<<Backslash>>), Str(<<"e_acute">>)}

NextSearch ==
  \/ Tick
  \/ \E o \in SearchInserts : nextId <= MaxSearchIds /\ Insert(o) /\ UNCHANGED hs
  \/ \E q \in Queries, e \in {Undef, VecY} : Search(q, 1, e) /\ UNCHANGED hs

SearchSpec == InitFts /\ [][NextSearch]_vars

\* ------------------------------ ToolSpec: the tools' handlers, interleaved
\* Every await of a handler is a point where the other handlers run; a
\* step is one store call.  An embedding provider's answer does not depend
\* on the store: it is drawn where the handler passes it on.
createInputSchema(args) ==
  /\ Len(args.subject) >= 1 /\ Len(args.subject) <= MaxSubject
  /\ Len(args.content) >= 1 /\ Len(args.content) <= MaxContent

updateInputSchema(args) ==
  /\ args.subject.k = "str" => (Len(args.subject.s) >= 1 /\ Len(args.subject.s) <= MaxSubject)
  /\ args.content.k = "str" => (Len(args.content.s) >= 1 /\ Len(args.content.s) <= MaxContent)

\* z.object(...).parse: the keys the schema names, every other key of the
\* client's arguments dropped
StripUnknown(rawArgs, keys) == [f \in keys |-> rawArgs[f]]
createParse(rawArgs) == StripUnknown(rawArgs, {"subject", "content", "ttlDays"})
updateParse(rawArgs) ==
  StripUnknown(rawArgs, {"id", "subject", "content", "ttlDays", "expiresAt"})

\* truncate(text, max)
Ellipsis == "..."
truncate(text, max) ==
  IF Len(text) <= max THEN text
  ELSE SubSeq(text, 1, Max(0, max - 1)) \o <<Ellipsis>>

\* what memory-search sends of an item
serializeWhole(item) == item
serializeMemoryItem(item) ==
  [id |-> item.id,
   subject |-> truncate(item.subject, SerialSubject),
   content |-> truncate(item.content, SerialContent)]

\* what memory-create and memory-update send: { id, item: lite }
Lite(saved, id) ==
  [id |-> id,
   item |-> IF saved = Undef THEN [id |-> id]
            ELSE [id |-> saved.id, subject |-> saved.subject, content |-> saved.content]]

\* ttlDays as a handler hands it to the store: a finite number, or undefined
ToolTtl(t) == IF t.k = "num" THEN t ELSE Undef

\* a JavaScript string in a condition
Truthy(q) == q.k = "str" /\ Len(q.s) > 0

SetHandler(h, r) == [hs EXCEPT ![h] = r]

\* What the embedding provider does when asked: there is none (undefined),
\* it throws, or it returns a vector.  tryEmbedDocument / tryEmbedQuery
\* return undefined without a provider, catch what a provider throws (and
\* log a warning), and pass a vector on.  Thrown is an exception that
\* leaves a call: the handler that awaits the call ends there.
Throws == [k |-> "throws"]
Thrown == [k |-> "thrown"]

tryEmbedRethrows(provider) == IF provider.k = "throws" THEN Thrown ELSE provider
tryEmbedDocument(provider) == IF provider.k = "throws" THEN Undef ELSE provider
tryEmbedQuery(provider) == IF provider.k = "throws" THEN Undef ELSE provider

\* logErr("warn: embedding ... failed:", msg)
Warned(provider) == provider.k = "throws"

\* a handler ends with an exception: the client gets the error
HandlerThrows(h, tool) ==
  /\ hs' = SetHandler(h, HandlerIdle)
  /\ last' = [op |-> tool, ok |-> FALSE]
  /\ UNCHANGED <<rows, fts, ftsOK, boot, memories, now, nextId, txn, imp>>

\* memory-search: parse, cleanupExpired, tryEmbedQuery, store.search
SearchStart(query, k) ==
  /\ hs.search.pc \in {"idle", "done"}
  /\ hs' = SetHandler("search", [pc |-> "cleanupExpired", query |-> query, k |-> k, started |-> now])
  /\ UNCHANGED <<rows, fts, ftsOK, boot, memories, now, nextId, txn, imp, last>>

SearchSweep ==
  /\ hs.search.pc = "cleanupExpired"
  /\ CleanupExpired
  /\ hs' = SetHandler("search", [hs.search EXCEPT !.pc = "search"])

\* response is what the client gets: the items the store gave, serialized.
\* items names the rows they were made of: an id and the row's expires_at
SearchRead(provider) ==
  /\ hs.search.pc = "search"
  /\ LET qEmbedding == IF Truthy(hs.search.query) THEN tryEmbedQuery(provider) ELSE Undef
     IN IF qEmbedding = Thrown
          THEN HandlerThrows("search", "memory-search")
          ELSE /\ Search(hs.search.query, hs.search.k, qEmbedding)
               /\ \E r \in SearchResults(hs.search.query, hs.search.k, qEmbedding) :
                    hs' = SetHandler("search",
                            [pc |-> "done", k |-> hs.search.k, started |-> hs.search.started,
                             warned |-> Truthy(hs.search.query) /\ Warned(provider),
                             response |-> [items |-> [i \in 1..Len(r.ids) |->
                                             serializeMemoryItem(rowToItem(rows[r.ids[i]]))]],
                             items |-> [i \in 1..Len(r.ids) |->
                                          [id |-> r.ids[i], expires_at |-> rows[r.ids[i]].expires_at]]])

\* memory-create: parse, cleanupExpired, tryEmbedDocument, insert, get
CreateStart(rawArgs) ==
  /\ hs.create.pc \in {"idle", "done"}
  /\ createInputSchema(rawArgs)
  /\ hs' = SetHandler("create", [pc |-> "cleanupExpired", args |-> createParse(rawArgs)])
  /\ UNCHANGED <<rows, fts, ftsOK, boot, memories, now, nextId, txn, imp, last>>

\* the arguments fail the schema: the handler throws before any store call
CreateRejected(args) ==
  /\ hs.create.pc \in {"idle", "done"}
  /\ ~createInputSchema(args)
  /\ last' = [op |-> "memory-create", ok |-> FALSE]
  /\ UNCHANGED <<rows, fts, ftsOK, boot, memories, now, nextId, txn, imp, hs>>

CreateSweep ==
  /\ hs.create.pc = "cleanupExpired"
  /\ CleanupExpired
  /\ hs' = SetHandler("create", [hs.create EXCEPT !.pc = "insert"])

CreateInsert(provider) ==
  /\ hs.create.pc = "insert"
  /\ LET autoEmbedding == tryEmbedDocument(provider)
     IN IF autoEmbedding = Thrown
          THEN HandlerThrows("create", "memory-create")
          ELSE /\ Insert([subject |-> Str(hs.create.args.subject),
                          content |-> Str(hs.create.args.content),
                          ttlDays |-> ToolTtl(hs.create.args.ttlDays),
                          embedding |-> autoEmbedding])
               /\ hs' = SetHandler("create", [pc |-> "get", id |-> nextId, warned |-> Warned(provider)])

CreateGet ==
  /\ hs.create.pc = "get"
  /\ Get(hs.create.id)
  /\ hs' = SetHandler("create",
             [pc |-> "done", response |-> Lite(GetResult(hs.create.id), hs.create.id)])

\* memory-update: parse, (get, tryEmbedDocument,) update, get
UpdateStart(h, rawArgs) ==
  /\ hs[h].pc \in {"idle", "done"}
  /\ updateInputSchema(rawArgs)
  /\ LET args == updateParse(rawArgs)
     IN hs' = SetHandler(h,
                [pc |-> IF args.subject.k = "str" \/ args.content.k = "str"
                          THEN "current" ELSE "update",
                 args |-> args])
  /\ UNCHANGED <<rows, fts, ftsOK, boot, memories, now, nextId, txn, imp, last>>

UpdateGetCurrent(h) ==
  /\ hs[h].pc = "current"
  /\ Get(hs[h].args.id)
  /\ hs' = SetHandler(h, [pc |-> "embed", args |-> hs[h].args,
                            current |-> GetResult(hs[h].args.id)])

ToolPatch(args, embedding) ==
  [subject |-> args.subject, content |-> args.content, ttlDays |-> ToolTtl(args.ttlDays),
   expiresAt |-> args.expiresAt, embedding |-> embedding]

UpdateWrite(h, provider) ==
  /\ hs[h].pc \in {"embed", "update"}
  /\ LET embedding == IF hs[h].pc = "embed" THEN tryEmbedDocument(provider) ELSE Undef
     IN IF embedding = Thrown
          THEN HandlerThrows(h, "memory-update")
          ELSE /\ Update(hs[h].args.id, ToolPatch(hs[h].args, embedding))
               /\ hs' = SetHandler(h,
                          [pc |-> "get", id |-> hs[h].args.id,
                           warned |-> hs[h].pc = "embed" /\ Warned(provider)])

UpdateGet(h) ==
  /\ hs[h].pc = "get"
  /\ Get(hs[h].id)
  /\ hs' = SetHandler(h,
             [pc |-> "done", response |-> Lite(GetResult(hs[h].id), hs[h].id)])

CreateArgs ==
  {[subject |-> SubjA, content |-> ContX, ttlDays |-> Undef],
   [subject |-> SubjA, content |-> ContX, ttlDays |-> Num(-2)],
   [subject |-> LongSubject, content |-> ContX, ttlDays |-> Undef]}

UpdateArgs ==
  {[id |-> 1, subject |-> Undef, content |-> Undef, ttlDays |-> Undef, expiresAt |-> PastIso],
   [id |-> 1, subject |-> Str(SubjB), content |-> Undef, ttlDays |-> Num(2), expiresAt |-> Undef]}

NextTool ==
  \/ Tick
  \/ \E q \in {Undef, Str(ContX)} : SearchStart(q, 1)
  \/ SearchSweep
  \/ \E e \in {Undef, VecY} : SearchRead(e)
  \/ \E a \in CreateArgs : nextId <= MaxToolIds /\ CreateStart(a)
  \/ \E a \in CreateArgs : CreateRejected(a)
  \/ CreateSweep
  \/ \E e \in {Undef, VecX} : CreateInsert(e)
  \/ CreateGet
  \/ \E a \in UpdateArgs : UpdateStart("update", a)
  \/ UpdateGetCurrent("update")
  \/ \E e \in {Undef, VecX} : UpdateWrite("update", e)
  \/ UpdateGet("update")

ToolSpec == Init /\ [][NextTool]_vars

\* ------------------ BoundarySpec: the handlers and the embedding provider
Providers == {Undef, Throws, VecY}

\* arguments as a client sends them: a client may add any key, embedding
\* among them
BoundaryCreateArgs ==
  {[subject |-> SubjA, content |-> ContX, ttlDays |-> Undef, embedding |-> e] :
     e \in {Undef, VecX}}

BoundaryUpdateArgs ==
  {[id |-> 1, subject |-> Str(SubjB), content |-> Undef, ttlDays |-> Undef,
    expiresAt |-> Undef, embedding |-> e] : e \in {Undef, VecX}}

BoundaryQueries == {Undef, Str(<<>>), Str(<<" ">>), Str(ContX)}

NextBoundary ==
  \/ Tick
  \/ \E q \in BoundaryQueries : SearchStart(q, 1)
  \/ SearchSweep
  \/ \E p \in Providers : SearchRead(p)
  \/ \E a \in BoundaryCreateArgs : nextId <= MaxBoundaryIds /\ CreateStart(a)
  \/ CreateSweep
  \/ \E p \in Providers : CreateInsert(p)
  \/ CreateGet
  \/ \E a \in BoundaryUpdateArgs : UpdateStart("update", a)
  \/ UpdateGetCurrent("update")
  \/ \E p \in Providers : UpdateWrite("update", p)
  \/ UpdateGet("update")

BoundarySpec == Init /\ [][NextBoundary]_vars

\* ------- the owner-scoped generation: table memories, memory.remember,
\* memory.export
Bool(b) == [k |-> "bool", b |-> b]

\* sanitizeEmbeddingInput: the loop normalizeEmbedding has
sanitizeEmbeddingInput(vec) ==
  IF vec.k # "vec" THEN Undef
  ELSE LET cleaned == CleanVec(vec.v, <<>>)
       IN IF Len(cleaned) > 0 THEN Vec(cleaned) ELSE Undef

\* opts.ttlDays ? new Date(Date.now() + opts.ttlDays * 864e5).toISOString() : null
OwnedExpiry(ttl, nowMs) ==
  IF ttl.k = "num" /\ ttl.halves # 0
    THEN Iso(nowMs + ttl.halves * (DayMs \div 2)) ELSE SqlNull

\* the row insert(opts) of the owner-scoped store writes
OwnedRow(id, opts, nowMs) ==
  [id |-> id, owner_id |-> opts.ownerId, type |-> opts.type,
   subject |-> opts.subject, content |-> opts.content,
   importance |-> IF opts.importance.k = "undef" THEN Num(1) ELSE opts.importance,
   use_count |-> 0, created_at |-> Iso(nowMs), last_used_at |-> SqlNull,
   expires_at |-> OwnedExpiry(opts.ttlDays, nowMs),
   pinned |-> IF opts.pinned = Bool(TRUE) THEN 1 ELSE 0,
   consent |-> IF opts.consent = Bool(TRUE) THEN 1 ELSE 0,
   sensitivity |-> IF opts.sensitivity.k = "undef" THEN <<>> ELSE opts.sensitivity.v,
   embedding |-> EmbeddingColumn(normalizeEmbedding(opts.embedding))]

OwnedInsert(opts) ==
  /\ memories' = (nextId :> OwnedRow(nextId, opts, now)) @@ memories
  /\ nextId' = nextId + 1
  /\ last' = [op |-> "insert", id |-> nextId]
  /\ UNCHANGED <<rows, fts, ftsOK, boot, now, txn, imp>>

\* cleanupExpired(ownerId): the owner's rows only, when an owner is given
OwnedSwept(ownerId) ==
  {i \in DOMAIN memories :
     ~(/\ SweepMatches(memories[i].expires_at, now)
       /\ (Len(ownerId) > 0 => memories[i].owner_id = ownerId))}

OwnedCleanupExpired(ownerId) ==
  /\ memories' = Restrict(memories, OwnedSwept(ownerId))
  /\ last' = [op |-> "cleanupExpired"]
  /\ UNCHANGED <<rows, fts, ftsOK, boot, now, nextId, txn, imp>>

OwnedRowToItem(row) ==
  [id |-> row.id, ownerId |-> row.owner_id, type |-> row.type,
   subject |-> row.subject, content |-> row.content,
   importance |-> row.importance, useCount |-> row.use_count,
   createdAt |-> row.created_at,
   lastUsedAt |-> IF row.last_used_at.k = "null" THEN Undef ELSE row.last_used_at,
   expiresAt |-> IF row.expires_at.k = "null" THEN Undef ELSE row.expires_at,
   pinned |-> row.pinned # 0, consent |-> row.consent # 0,
   sensitivity |-> row.sensitivity,
   embedding |-> parseEmbedding(row.embedding)]

\* export(ownerId): select * from memories where owner_id = ?, in the
\* order SQLite gives the rows, which the statement does not fix
ExportResults(ownerId) ==
  {[i \in 1..Len(s) |-> OwnedRowToItem(memories[s[i]])] :
     s \in Perms({i \in DOMAIN memories : memories[i].owner_id = ownerId})}

\* the inputSchema of memory.remember
rememberInputSchema(args) ==
  /\ args.type \in {"preference", "profile", "project", "fact", "constraint"}
  /\ Len(args.subject) >= 1 /\ Len(args.subject) <= MaxSubject
  /\ Len(args.content) >= 1 /\ Len(args.content) <= MaxOwnedContent
  /\ args.importance.k = "num" => (args.importance.halves >= 0 /\ args.importance.halves <= 2)
  /\ args.ttlDays.k = "num" => (args.ttlDays.halves % 2 = 0 /\ args.ttlDays.halves > 0)
  /\ args.sensitivity.k = "vec" => Len(args.sensitivity.v) <= MaxSensitivity
  /\ args.embedding.k = "vec" =>
       (Len(args.embedding.v) >= 1 /\ Len(args.embedding.v) <= MaxEmbedding)

\* memory.remember: cleanupExpired(ownerId), the client's embedding or
\* tryEmbedDocument, insert
RememberStart(args) ==
  /\ hs.remember.pc \in {"idle", "done"}
  /\ rememberInputSchema(args)
  /\ hs' = SetHandler("remember", [pc |-> "cleanupExpired", args |-> args])
  /\ UNCHANGED <<rows, fts, ftsOK, boot, memories, now, nextId, txn, imp, last>>

RememberSweep ==
  /\ hs.remember.pc = "cleanupExpired"
  /\ OwnedCleanupExpired(hs.remember.args.ownerId)
  /\ hs' = SetHandler("remember", [hs.remember EXCEPT !.pc = "insert"])

RememberInsert(provider) ==
  /\ hs.remember.pc = "insert"
  /\ LET providedEmbedding == sanitizeEmbeddingInput(hs.remember.args.embedding)
         autoEmbedding == IF providedEmbedding # Undef THEN providedEmbedding
                          ELSE tryEmbedDocument(provider)
     IN /\ OwnedInsert([hs.remember.args EXCEPT !.embedding = autoEmbedding])
        /\ hs' = SetHandler("remember", [pc |-> "done", response |-> [id |-> nextId]])

\* memory.export: export(ownerId), the items sent as the store gave them
ExportRun(ownerId) ==
  /\ hs.export.pc \in {"idle", "done"}
  /\ last' = [op |-> "export", ownerId |-> ownerId]
  /\ \E items \in ExportResults(ownerId) :
       hs' = SetHandler("export", [pc |-> "done", response |-> [items |-> items]])
  /\ UNCHANGED <<rows, fts, ftsOK, boot, memories, now, nextId, txn, imp>>

\* ---------- GenerationsSpec: a client of both generations' tools, which
\* sends VecX as an embedding where it sends one; the provider gives VecY
Owners == {<<"u", "1">>}

RememberArgs ==
  {[ownerId |-> o, type |-> "fact", subject |-> SubjA, content |-> ContX,
    importance |-> Undef, ttlDays |-> t, pinned |-> Undef, consent |-> Undef,
    sensitivity |-> Undef, embedding |-> e] :
     o \in Owners, t \in {Undef}, e \in {Undef, VecX}}

NextGenerations ==
  \/ \E a \in RememberArgs : nextId <= MaxGenIds /\ RememberStart(a)
  \/ RememberSweep
  \/ RememberInsert(VecY)
  \/ \E o \in Owners : ExportRun(o)
  \/ \E a \in BoundaryCreateArgs : nextId <= MaxGenIds /\ CreateStart(a)
  \/ CreateSweep
  \/ CreateInsert(VecY)
  \/ CreateGet
  \/ \E a \in BoundaryUpdateArgs : UpdateStart("update", a)
  \/ UpdateGetCurrent("update")
  \/ UpdateWrite("update", VecY)
  \/ UpdateGet("update")
  \/ SearchStart(Undef, 1)
  \/ SearchSweep
  \/ SearchRead(Undef)

GenerationsSpec == Init /\ [][NextGenerations]_vars

\* ------------------------- StartupSpec: the constructor, then the calls
\* this.ready = new Promise((resolve) => ...): the table is created, then
\* the index and its triggers, then resolve() is called.  Neither callback
\* rejects: an error is logged and the next step runs.
InitStartup ==
  /\ InitStore
  /\ ftsOK = FALSE
  /\ boot = [pc |-> "table", table |-> FALSE, fatal |-> FALSE]

\* create table if not exists memories_v2 (...), failing or not
ExecCreateTable(err) ==
  /\ boot.pc = "table"
  /\ boot' = [pc |-> "fts", table |-> ~err, fatal |-> err]
  /\ UNCHANGED <<rows, fts, ftsOK, memories, now, nextId, txn, imp, last, hs>>

\* create virtual table ... using fts5; create trigger ... on memories_v2:
\* a trigger on a table that is not there cannot be created
ExecCreateFts(ftsErr) ==
  /\ boot.pc = "fts"
  /\ ~boot.table => ftsErr
  /\ ftsOK' = ~ftsErr
  /\ boot' = [boot EXCEPT !.pc = "ready"]
  /\ UNCHANGED <<rows, fts, memories, now, nextId, txn, imp, last, hs>>

\* await this.ready
Ready == boot.pc = "ready"

\* a call on a store whose table is missing: its statement fails with
\* "no such table", the call rejects
NoTable(op) ==
  /\ Ready /\ ~boot.table
  /\ last' = [op |-> op, ok |-> FALSE]
  /\ nextId' = IF op = "insert" THEN nextId + 1 ELSE nextId
  /\ UNCHANGED <<rows, fts, ftsOK, boot, memories, now, txn, imp, hs>>

StoreCalls == {"insert", "update", "delete", "get", "list", "search", "cleanupExpired"}

NextStartup ==
  \/ \E err \in BOOLEAN : ExecCreateTable(err)
  \/ \E ftsErr \in BOOLEAN : ExecCreateFts(ftsErr)
  \/ \E op \in StoreCalls : nextId <= MaxStartupIds /\ NoTable(op)
  \/ Tick
  \/ \E o \in InsertInputs :
       Ready /\ boot.table /\ nextId <= MaxStartupIds /\ Insert(o) /\ UNCHANGED hs
  \/ \E id \in 1..MaxStartupIds, p \in UpdateInputs :
       Ready /\ boot.table /\ Update(id, p) /\ UNCHANGED hs
  \/ \E id \in 1..MaxStartupIds : Ready /\ boot.table /\ Delete(id) /\ UNCHANGED hs
  \/ \E id \in 1..MaxStartupIds : Ready /\ boot.table /\ Get(id) /\ UNCHANGED hs
  \/ Ready /\ boot.table /\ CleanupExpired /\ UNCHANGED hs

StartupSpec == InitStartup /\ [][NextStartup]_vars

\* ------------------- FtsSpec: a store whose fts5 index could be created
InitIndexed == InitStore /\ boot = Booted /\ ftsOK = TRUE

FtsTerms == {SubjA, SubjB, ContX}

FtsInserts ==
  {[subject |-> Str(SubjA), content |-> Str(ContX), ttlDays |-> Undef, embedding |-> Undef],
   [subject |-> Str(SubjB), content |-> Str(ContX), ttlDays |-> Num(0 - 2), embedding |-> Undef]}

FtsPatches == {[NoPatch EXCEPT !.subject = Str(s)] : s \in {SubjA, SubjB}}

NextFts ==
  \/ \E o \in FtsInserts : nextId <= MaxFtsIds /\ Insert(o) /\ UNCHANGED hs
  \/ \E id \in 1..MaxFtsIds, p \in FtsPatches : Update(id, p) /\ UNCHANGED hs
  \/ \E id \in 1..MaxFtsIds : Delete(id) /\ UNCHANGED hs
  \/ CleanupExpired /\ UNCHANGED hs
  \/ nextId <= MaxFtsIds /\ ImportBegin(<<GoodItem>>) /\ UNCHANGED hs
  \/ ImportItem("none") /\ UNCHANGED hs
  \/ ImportCommit /\ UNCHANGED hs
  \/ \E t \in FtsTerms : Search(Str(t), 1, Undef) /\ UNCHANGED hs

FtsSpec == InitIndexed /\ [][NextFts]_vars

\* ------------------- SearchArgsSpec: memory-search from its raw arguments
\* searchInputSchema: query a string of at most 1000 characters; k a
\* positive integer of at most 20, or any string at all
searchInputSchema(rawArgs) ==
  /\ rawArgs.query.k = "str" => Len(rawArgs.query.s) <= MaxQuery
  /\ \/ rawArgs.k.k = "undef"
     \/ rawArgs.k.k = "str"
     \/ /\ rawArgs.k.k = "num"
        /\ rawArgs.k.halves % 2 = 0
        /\ rawArgs.k.halves > 0
        /\ rawArgs.k.halves <= 2 * MaxK

\* Number(v) of an integer, and of a string: white space around it is
\* dropped, "" is 0, decimal digits are their value.  A string of another
\* form is another number or NaN; the inputs here hold none.
Digits == <<"0", "1", "2", "3", "4", "5", "6", "7", "8", "9">>
IsDecimal(s) == Len(s) > 0 /\ \A i \in 1..Len(s) : \E d \in 1..Len(Digits) : Digits[d] = s[i]
DigitValue(c) == (CHOOSE d \in 1..Len(Digits) : Digits[d] = c) - 1

RECURSIVE Decimal(_)
Decimal(s) ==
  IF s = <<>> THEN 0
  ELSE Decimal(SubSeq(s, 1, Len(s) - 1)) * 10 + DigitValue(s[Len(s)])

JsNumber(v) ==
  IF v.k = "num" THEN v.halves \div 2
  ELSE IF Trim(v.s) = <<>> THEN 0
  ELSE IF IsDecimal(Trim(v.s)) THEN Decimal(Trim(v.s))
  ELSE NonFiniteNum

\* Number(k ?? defaultTopK)
TopK(k) == IF k.k = "undef" THEN defaultTopK ELSE JsNumber(k)

\* the handler from the arguments a client sent
SearchCall(rawArgs) ==
  /\ searchInputSchema(rawArgs)
  /\ SearchStart(rawArgs.query, TopK(rawArgs.k))

\* the arguments fail the schema: the handler throws before any store call
SearchRejected(rawArgs) ==
  /\ hs.search.pc \in {"idle", "done"}
  /\ ~searchInputSchema(rawArgs)
  /\ last' = [op |-> "memory-search", ok |-> FALSE]
  /\ UNCHANGED <<rows, fts, ftsOK, boot, memories, now, nextId, txn, imp, hs>>

\* k as clients send it: left out, 1, 21, "30", "0"
SearchArgs ==
  {[query |-> q, k |-> k] :
     q \in {Undef, Str(ContX)},
     k \in {Undef, Num(2), Num(2 * MaxK + 2), Str(<<"3", "0">>), Str(<<"0">>)}}

NextSearchArgs ==
  \/ Tick
  \/ nextId <= MaxArgIds /\ Insert(PlainInsert) /\ UNCHANGED hs
  \/ \E a \in SearchArgs : SearchCall(a)
  \/ \E a \in SearchArgs : SearchRejected(a)
  \/ SearchSweep
  \/ SearchRead(Undef)

SearchArgsSpec == Init /\ [][NextSearchArgs]_vars

\* -------- DatesSpec: the calls that write a record's dates and its expiry
DatesPatches == {BothPatch}

NextDates ==
  \/ Tick
  \/ nextId <= MaxDatesIds /\ Insert(PlainInsert) /\ UNCHANGED hs
  \/ \E id \in 1..MaxDatesIds, p \in DatesPatches : Update(id, p) /\ UNCHANGED hs
  \/ nextId <= MaxDatesIds /\ ImportBegin(<<PlainItem(PastIso)>>) /\ UNCHANGED hs
  \/ ImportItem("none") /\ UNCHANGED hs
  \/ ImportCommit /\ UNCHANGED hs
  \/ \E id \in 1..MaxDatesIds : Delete(id) /\ UNCHANGED hs
  \/ CleanupExpired /\ UNCHANGED hs

DatesSpec == Init /\ [][NextDates]_vars

\* --------------------------------- ListSpec: list(limit) over rows whose
\* date_updated differ and tie, with more rows than the limit
MaxListIds == 3      \* ids the list runs may hand out
MaxListLimit == 2    \* largest limit passed to list

NextList ==
  \/ Tick
  \/ nextId <= MaxListIds /\ Insert(PlainInsert) /\ UNCHANGED hs
  \/ \E id \in 1..MaxListIds : Update(id, BothPatch) /\ UNCHANGED hs
  \/ \E id \in 1..MaxListIds : Delete(id) /\ UNCHANGED hs
  \/ \E limit \in 0..MaxListLimit : List(limit) /\ UNCHANGED hs

ListSpec == Init /\ [][NextList]_vars

\* --------------------------------- VectorSpec: search with a vector and no
\* text over a store holding more rows with a vector than the window takes
PreloadRows == 55    \* rows with a stored vector before the run's calls
MaxVectorIds == 2    \* rows the run's calls add

VecXY == Vec(<<Fin(1), Fin(1)>>)
PreloadVec(i) == IF i % 7 = 1 THEN VecX ELSE IF i % 7 = 4 THEN VecXY ELSE VecY

\* rows inserted one second apart, the last one second before the run
PreloadRow(i) ==
  LET at == StartMs - 1000 * (PreloadRows + 1 - i)
  IN [id |-> i, rowid |-> i, subject |-> SubjA, content |-> ContX,
      date_created |-> at, date_updated |-> at, expires_at |-> SqlNull,
      embedding |-> EmbeddingColumn(normalizeEmbedding(PreloadVec(i)))]

InitVector ==
  /\ rows = [i \in 1..PreloadRows |-> PreloadRow(i)]
  /\ nextId = PreloadRows + 1
  /\ fts = {} /\ now = StartMs /\ txn = NoTxn /\ imp = ImpIdle /\ last = NoCall
  /\ hs = [h \in Handlers |-> HandlerIdle] /\ memories = <<>>
  /\ boot = Booted /\ ftsOK = FALSE

VectorInserts == {[PlainInsert EXCEPT !.embedding = e] : e \in {Undef, VecX}}
VectorPatches == {[NoPatch EXCEPT !.subject = Str(SubjB)]}
VectorKs == {1, 9}

NextVector ==
  \/ Tick
  \/ \E o \in VectorInserts : nextId <= PreloadRows + MaxVectorIds /\ Insert(o) /\ UNCHANGED hs
  \/ \E id \in {1, PreloadRows + 1}, p \in VectorPatches : Update(id, p) /\ UNCHANGED hs
  \/ \E k \in VectorKs : Search(Undef, k, VecX) /\ UNCHANGED hs

VectorSpec == InitVector /\ [][NextVector]_vars

\* --------------------------------- TtlSpec: insert with every kind of ttlDays
MaxTtlIds == 2       \* ids the ttl runs may hand out

\* no ttlDays, NaN or Infinity, and 0, 1, -1, 0.5, 1.5, -1.5 days
TtlInserts ==
  {[PlainInsert EXCEPT !.ttlDays = t] :
     t \in {Undef, NonFiniteNum, Num(0), Num(2), Num(0 - 2), Num(1), Num(3), Num(0 - 3)}}

NextTtl ==
  \/ Tick
  \/ \E o \in TtlInserts : nextId <= MaxTtlIds /\ Insert(o) /\ UNCHANGED hs
  \/ \E id \in 1..MaxTtlIds : Get(id) /\ UNCHANGED hs
  \/ CleanupExpired /\ UNCHANGED hs

TtlSpec == Init /\ [][NextTtl]_vars

\* --------------------------------- SimilaritySpec: cosineSimilarity applied
\* to absent, empty, unequal and partly non-finite vectors
MaxVecLen == 2       \* longest vector handed to cosineSimilarity

SimComponents == {Fin(0), Fin(1), Fin(0 - 1), NonFin}
SimVectors ==
  {Undef} \cup {Vec(v) : v \in UNION {[1..n -> SimComponents] : n \in 0..MaxVecLen}}

\* the arguments of a call about to be made
InitSimilarity ==
  /\ last \in {[op |-> "args", a |-> a, b |-> b] : a \in SimVectors, b \in SimVectors}
  /\ rows = <<>> /\ fts = {} /\ now = StartMs /\ nextId = 1 /\ txn = NoTxn
  /\ imp = ImpIdle /\ hs = [h \in Handlers |-> HandlerIdle] /\ memories = <<>>
  /\ boot = Booted /\ ftsOK = FALSE

\* the call cosineSimilarity(a, b); its value is cosineSimilarity(last.a, last.b)
Similarity ==
  /\ last.op = "args"
  /\ last' = [last EXCEPT !.op = "cosineSimilarity"]
  /\ UNCHANGED <<rows, fts, ftsOK, boot, memories, now, nextId, txn, imp>>

NextSimilarity == Similarity /\ UNCHANGED hs

SimilaritySpec == InitSimilarity /\ [][NextSimilarity]_vars

\* --------------------------------- DurableSpec: insert, update and delete
\* interleaved with the statements of an importAll that fails or succeeds
MaxDurableIds == 3   \* ids the durability runs may hand out

SubjectPatch == [NoPatch EXCEPT !.subject = Str(SubjA)]

NextDurable ==
  \/ nextId <= MaxDurableIds /\ Insert(PlainInsert) /\ UNCHANGED hs
  \/ \E id \in 1..MaxDurableIds : Update(id, SubjectPatch) /\ UNCHANGED hs
  \/ \E id \in 1..MaxDurableIds : Delete(id) /\ UNCHANGED hs
  \/ \E b \in {<<GoodItem>>, BatchBad} :
       nextId + Len(b) <= MaxDurableIds + 1 /\ ImportBegin(b) /\ UNCHANGED hs
  \/ ImportItem("none") /\ UNCHANGED hs
  \/ ImportCommit /\ UNCHANGED hs
  \/ ImportRollback /\ UNCHANGED hs

DurableSpec == Init /\ [][NextDurable]_vars

\* --------------------------------- SweepSpec: tool calls that sweep, while
\* an importAll is between its BEGIN and its COMMIT or ROLLBACK
MaxSweepIds == 3     \* ids the sweep runs may hand out

ExpiredInsert == [PlainInsert EXCEPT !.ttlDays = Num(0 - 2)]

NextSweep ==
  \/ nextId <= MaxSweepIds /\ Insert(ExpiredInsert) /\ UNCHANGED hs
  \/ \E b \in {<<GoodItem>>, BatchBad} :
       nextId + Len(b) <= MaxSweepIds + 1 /\ ImportBegin(b) /\ UNCHANGED hs
  \/ ImportItem("none") /\ UNCHANGED hs
  \/ ImportCommit /\ UNCHANGED hs
  \/ ImportRollback /\ UNCHANGED hs
  \/ SearchStart(Undef, 1)
  \/ SearchSweep
  \/ SearchRead(Undef)
  \/ CleanupExpired /\ UNCHANGED hs

SweepSpec == Init /\ [][NextSweep]_vars

\* --------------------------------- RoundTripSpec: a store is filled, its
\* exportAll() is taken, and the result is given to importAll of an empty store
MaxRoundRows == 2    \* rows of the store that is exported

\* select * from memories_v2 order by date_created asc, each row as an item
ExportAllOf(rws) ==
  {[i \in 1..Len(s) |-> rowToItem(rws[s[i]])] :
     s \in {p \in Perms(DOMAIN rws) :
              \A i \in 1..(Len(p) - 1) : rws[p[i]].date_created <= rws[p[i + 1]].date_created}}

\* exportAll(): the caller holds the items
ExportAll ==
  /\ last.op \notin {"exportAll", "opened"}
  /\ imp.pc = "idle"
  /\ \E e \in ExportAllOf(rows) : last' = [op |-> "exportAll", items |-> e]
  /\ UNCHANGED <<rows, fts, ftsOK, boot, memories, now, nextId, txn, imp>>

\* new MemoryStore(path) on a file that does not exist yet
OpenEmptyStore ==
  /\ last.op = "exportAll"
  /\ rows' = <<>>
  /\ fts' = {}
  /\ last' = [op |-> "opened", items |-> last.items]
  /\ UNCHANGED <<ftsOK, boot, memories, now, nextId, txn, imp>>

\* the items as importAll reads them: subject and content are strings
AsImportItems(items) ==
  [i \in 1..Len(items) |-> [items[i] EXCEPT !.subject = Str(@), !.content = Str(@)]]

MixedVec == Vec(<<Fin(1), NonFin, Fin(0)>>)
RoundInserts ==
  {[PlainInsert EXCEPT !.ttlDays = t, !.embedding = e] :
     t \in {Undef, Num(2)}, e \in {Undef, MixedVec}}
RoundPatches == {[NoPatch EXCEPT !.expiresAt = Rfc(StartMs - DayMs)]}
Filling == imp.pc = "idle" /\ last.op \notin {"exportAll", "opened"}

NextRoundTrip ==
  \/ Tick
  \/ \E o \in RoundInserts : Filling /\ nextId <= MaxRoundRows /\ Insert(o) /\ UNCHANGED hs
  \/ \E id \in 1..MaxRoundRows, p \in RoundPatches : Filling /\ Update(id, p) /\ UNCHANGED hs
  \/ ExportAll /\ UNCHANGED hs
  \/ OpenEmptyStore /\ UNCHANGED hs
  \/ last.op = "opened" /\ ImportBegin(AsImportItems(last.items)) /\ UNCHANGED hs
  \/ ImportItem("none") /\ UNCHANGED hs
  \/ ImportCommit /\ UNCHANGED hs

RoundTripSpec == Init /\ [][NextRoundTrip]_vars

\* --------------------------------- TextEmbedSpec: two memory-update calls
\* on one record, with a provider whose vector tells the text it was given
MaxTextIds == 1      \* records the runs create

\* provider.embedDocument(memoryToEmbeddingText(subject, content)): a vector
\* that differs whenever the subject or the content differs
TextCode(s) ==
  IF s = SubjA THEN 1 ELSE IF s = SubjB THEN 2 ELSE IF s = ContX THEN 3
  ELSE IF s = ContB THEN 4 ELSE 0
embedDocument(subject, content) == Vec(<<Fin(TextCode(subject)), Fin(TextCode(content))>>)

\* const nextSub = typeof subject === 'string' ? subject : current?.subject ?? ''
NextSub(h) ==
  IF hs[h].args.subject.k = "str" THEN hs[h].args.subject.s
  ELSE IF hs[h].current = Undef THEN <<>> ELSE hs[h].current.subject
NextCon(h) ==
  IF hs[h].args.content.k = "str" THEN hs[h].args.content.s
  ELSE IF hs[h].current = Undef THEN <<>> ELSE hs[h].current.content

UpdateCalls == {"update", "update2"}
TextUpdateArgs ==
  {[id |-> 1, subject |-> Str(SubjB), content |-> Undef, ttlDays |-> Undef, expiresAt |-> Undef],
   [id |-> 1, subject |-> Undef, content |-> Str(ContB), ttlDays |-> Undef, expiresAt |-> Undef]}

\* memory-create with a provider that works: the record and its embedding
TextCreated ==
  [subject |-> Str(SubjA), content |-> Str(ContX), ttlDays |-> Undef,
   embedding |-> embedDocument(SubjA, ContX)]

NextTextEmbed ==
  \/ nextId <= MaxTextIds /\ Insert(TextCreated) /\ UNCHANGED hs
  \/ \E h \in UpdateCalls, a \in TextUpdateArgs : a.id \in Ids /\ UpdateStart(h, a)
  \/ \E h \in UpdateCalls : UpdateGetCurrent(h)
  \/ \E h \in UpdateCalls, fails \in BOOLEAN :
       /\ hs[h].pc = "embed"
       /\ UpdateWrite(h, IF fails THEN Throws ELSE embedDocument(NextSub(h), NextCon(h)))
  \/ \E h \in UpdateCalls : UpdateGet(h)

TextEmbedSpec == Init /\ [][NextTextEmbed]_vars

\* --------------------------------- memory.recall of the first generation
\* recencyDecay(d, halfLifeDays = 30) = 1 / (1 + max(days, 0) / 30), as the
\* fraction num / den; it is NaN for a text `new Date` cannot read
halfLifeDays == 30
RECURSIVE Gcd(_, _)
Gcd(a, b) == IF b = 0 THEN a ELSE Gcd(b, a % b)

recencyDecay(d, nowMs) ==
  IF d = Undef \/ d = Str(<<>>) THEN [nan |-> FALSE, num |-> 3, den |-> 5]
  ELSE IF d.k \notin {"iso", "rfc"} THEN [nan |-> TRUE, num |-> 0, den |-> 1]
  ELSE LET elapsed == Max(nowMs - d.ms, 0)
           u == Gcd(DayMs, elapsed)
       IN [nan |-> FALSE, num |-> halfLifeDays * (DayMs \div u),
           den |-> halfLifeDays * (DayMs \div u) + elapsed \div u]

\* the weights, in hundredths
baseTextWeight(hasQuery, hasVec) == IF hasQuery THEN (IF hasVec THEN 40 ELSE 55) ELSE 0
baseEmbedWeight(hasQuery, hasVec) == IF hasVec THEN (IF hasQuery THEN 35 ELSE 60) ELSE 0
baseRecWeight == 15
baseImportanceWeight == 10
weightSum(hasQuery, hasVec) ==
  baseTextWeight(hasQuery, hasVec) + baseEmbedWeight(hasQuery, hasVec)
    + baseRecWeight + baseImportanceWeight

\* Math.max(cosineSimilarity(queryEmbedding, m.embedding), 0) as a fraction
\* (of vectors whose norms multiply to a square)
embedScore(qe, m) ==
  LET cos == IF qe.k = "vec" /\ m.embedding.k = "vec"
               THEN cosineSimilarity(qe, m.embedding) ELSE SimZero
  IN IF cos.dot <= 0 THEN [num |-> 0, den |-> 1]
     ELSE [num |-> cos.dot, den |-> CHOOSE r \in 1..(cos.na * cos.nb) : r * r = cos.na * cos.nb]

\* score = raw / weightSum = num / (20 * weightSum * q); nan when it is NaN
RecallScore(m, hasQuery, qe, textMatch, nowMs) ==
  LET hasVec == qe.k = "vec"
      text10 == IF hasQuery THEN (IF textMatch THEN 10 ELSE 3) ELSE 5
      emb == embedScore(qe, m)
      rec == recencyDecay(m.lastUsedAt, nowMs)
      imp2 == IF m.importance.k = "num" THEN m.importance.halves ELSE 1
  IN [nan |-> rec.nan,
      num |-> baseTextWeight(hasQuery, hasVec) * text10 * 2 * emb.den * rec.den
              + baseEmbedWeight(hasQuery, hasVec) * emb.num * 20 * rec.den
              + baseRecWeight * rec.num * 20 * emb.den
              + baseImportanceWeight * imp2 * 10 * emb.den * rec.den,
      q |-> emb.den * rec.den,
      w |-> weightSum(hasQuery, hasVec)]

\* b.score - a.score < 0; a comparison with NaN counts as a tie
ScoreGreater(a, b) == ~a.nan /\ ~b.nan /\ a.num * b.q > b.num * a.q

\* the owner-scoped search(ownerId, query, slot, k, embedding) without a
\* text index (the LIKE branch): the sets of ids it may return.  `limit n`
\* without an order keeps any n rows.
OwnedOf(ownerId, slot) ==
  {i \in DOMAIN memories :
     memories[i].owner_id = ownerId /\ (slot.k = "str" => memories[i].type = slot.s)}
Windows(S, n) == {T \in SUBSET S : Cardinality(T) = Min(n, Cardinality(S))}
TopBySim(S, qe, k) ==
  LET sim(i) == cosineSimilarity(qe, OwnedRowToItem(memories[i]).embedding)
  IN {T \in Windows(S, k) : \A t \in T, u \in S \ T : ~SimGreater(sim(u), sim(t))}
OwnedSearchIds(ownerId, query, slot, k, embedding) ==
  LET tq == trimmedQuery(query)
      qe == normalizeEmbedding(embedding)
      mult == fetchMultiplier(qe)
      own == OwnedOf(ownerId, slot)
      like == {i \in own : \/ SqlLike(LikePattern(tq), memories[i].subject)
                           \/ SqlLike(LikePattern(tq), memories[i].content)}
  IN IF Len(tq) = 0 /\ qe.k = "vec"
       THEN UNION {TopBySim(w, qe, k) :
                     w \in Windows({i \in own : memories[i].embedding.k # "null"},
                                   Max(k * mult, ListWindow))}
     ELSE IF Len(tq) = 0 THEN Windows(own, Max(ListWindow, k * mult))
     ELSE IF qe.k = "vec" THEN UNION {TopBySim(w, qe, k) : w \in Windows(like, k * mult)}
     ELSE Windows(like, k * mult)

\* import(ownerId, [it]): the row written for an item
OwnedImportRow(id, ownerId, it, nowMs) ==
  [id |-> id, owner_id |-> ownerId, type |-> it.type,
   subject |-> it.subject, content |-> it.content,
   importance |-> IF it.importance.k = "undef" THEN Num(1) ELSE it.importance,
   use_count |-> 0, created_at |-> Iso(nowMs),
   last_used_at |-> IF it.lastUsedAt.k = "undef" THEN SqlNull ELSE it.lastUsedAt,
   expires_at |-> SqlNull, pinned |-> 0, consent |-> 0, sensitivity |-> <<>>,
   embedding |-> EmbeddingColumn(normalizeEmbedding(it.embedding))]

OwnedImport(ownerId, it) ==
  /\ memories' = (nextId :> OwnedImportRow(nextId, ownerId, it, now)) @@ memories
  /\ nextId' = nextId + 1
  /\ last' = [op |-> "import"]
  /\ UNCHANGED <<rows, fts, ftsOK, boot, now, txn, imp>>

\* update memories set use_count = use_count + 1, last_used_at = ? where id = ?
bumpUseCountOnly(row, nowMs) == [row EXCEPT !.use_count = @ + 1]
bumpUse(row, nowMs) == [row EXCEPT !.use_count = @ + 1, !.last_used_at = Iso(nowMs)]

\* the inputSchema of memory.recall
recallInputSchema(args) ==
  /\ args.query.k = "str" => Len(args.query.s) <= MaxQuery
  /\ args.k.k = "num" => (args.k.halves % 2 = 0 /\ args.k.halves > 0 /\ args.k.halves <= 2 * MaxK)
  /\ args.embedding.k = "vec" =>
       (Len(args.embedding.v) >= 1 /\ Len(args.embedding.v) <= MaxEmbedding)

MaxUseCount == 2     \* how often one record is bumped

RecallStart(args) ==
  /\ hs.recall.pc \in {"idle", "done"}
  /\ recallInputSchema(args)
  /\ \A i \in DOMAIN memories : memories[i].use_count < MaxUseCount
  /\ hs' = SetHandler("recall", [pc |-> "cleanupExpired", args |-> args])
  /\ UNCHANGED <<rows, fts, ftsOK, boot, memories, now, nextId, txn, imp, last>>

RecallSweep ==
  /\ hs.recall.pc = "cleanupExpired"
  /\ OwnedCleanupExpired(hs.recall.args.ownerId)
  /\ hs' = SetHandler("recall", [hs.recall EXCEPT !.pc = "rank"])

\* the candidates, their scores, .sort((a, b) => b.score - a.score) and
\* .slice(0, topk): any order of the candidates the comparisons allow
RecallRank(provider) ==
  /\ hs.recall.pc = "rank"
  /\ LET args == hs.recall.args
         topk == IF args.k.k = "num" THEN args.k.halves \div 2 ELSE defaultTopK
         tq == trimmedQuery(args.query)
         hasQuery == Len(tq) > 0
         given == sanitizeEmbeddingInput(args.embedding)
         qe == IF given = Undef /\ hasQuery THEN tryEmbedQuery(provider) ELSE given
         size == Max(topk * 4, ListWindow)
         none == {{}}
     IN \E text \in (IF hasQuery
                       THEN OwnedSearchIds(args.ownerId, Str(tq), args.slot, size, qe)
                       ELSE none),
           vec \in (IF qe.k = "vec"
                      THEN OwnedSearchIds(args.ownerId, Undef, args.slot, size, qe)
                      ELSE none),
           fallback \in (IF ~hasQuery /\ qe.k # "vec"
                           THEN Windows(OwnedOf(args.ownerId, args.slot), Max(ListWindow, topk * 10))
                           ELSE none) :
          LET cands == text \cup vec \cup fallback
              score(i) == RecallScore(OwnedRowToItem(memories[i]), hasQuery, qe, i \in text, now)
          IN \E s \in Perms(cands) :
               /\ \A i, j \in 1..Len(s) : i < j => ~ScoreGreater(score(s[j]), score(s[i]))
               /\ hs' = SetHandler("recall",
                          [pc |-> "bump", topk |-> topk, idx |-> 1, bumped |-> <<>>,
                           scored |-> [i \in 1..Min(topk, Len(s)) |->
                                         [id |-> s[i], score |-> score(s[i]),
                                          m |-> OwnedRowToItem(memories[s[i]])]]])
  /\ last' = [op |-> "recall"]
  /\ UNCHANGED <<rows, fts, ftsOK, boot, memories, now, nextId, txn, imp>>

\* try { await store.bumpUse(m.id); } catch { /* ignored */ }
RecallBump(fails) ==
  /\ hs.recall.pc = "bump"
  /\ hs.recall.idx <= Len(hs.recall.scored)
  /\ LET id == hs.recall.scored[hs.recall.idx].id
     IN memories' = IF fails \/ id \notin DOMAIN memories THEN memories
                    ELSE [memories EXCEPT ![id] = bumpUse(@, now)]
  /\ hs' = SetHandler("recall", [hs.recall EXCEPT !.idx = @ + 1, !.bumped = Append(@, ~fails)])
  /\ last' = [op |-> "bumpUse", ok |-> ~fails]
  /\ UNCHANGED <<rows, fts, ftsOK, boot, now, nextId, txn, imp>>

\* return { structuredContent: { items: scored }, ... }
RecallReturn ==
  /\ hs.recall.pc = "bump"
  /\ hs.recall.idx > Len(hs.recall.scored)
  /\ hs' = SetHandler("recall",
             [pc |-> "done", topk |-> hs.recall.topk, scored |-> hs.recall.scored,
              bumped |-> hs.recall.bumped, at |-> now,
              response |-> [items |-> [i \in 1..Len(hs.recall.scored) |-> hs.recall.scored[i].m]]])
  /\ UNCHANGED <<rows, fts, ftsOK, boot, memories, now, nextId, txn, imp, last>>

\* ---------- RecallSpec: records imported with and without a time of last
\* use, memory.recall with text, with a vector and with neither, and the
\* minimal generation's memory-search over a record updated before the run
MaxRecallIds == 3    \* ids the recall runs may hand out

NoDateText == Str(<<"x">>)
RecallItem(subject, importance, lastUsedAt, embedding) ==
  [type |-> "fact", subject |-> subject, content |-> ContX, importance |-> importance,
   lastUsedAt |-> lastUsedAt, embedding |-> embedding]
RecallItems ==
  {RecallItem(SubjA, Undef, Undef, VecX),
   RecallItem(SubjB, Num(2), Iso(StartMs - DayMs), VecY),
   RecallItem(SubjA, Num(0), NoDateText, Undef)}
RecallCall(query, k, embedding) ==
  [ownerId |-> <<"u", "1">>, query |-> query, slot |-> Undef, k |-> k, embedding |-> embedding]
RecallArgs ==
  {RecallCall(Undef, Undef, Undef), RecallCall(Str(SubjA), Num(2), Undef),
   RecallCall(Undef, Num(2), VecX), RecallCall(Str(SubjA), Undef, VecX)}

InitRecall ==
  /\ rows = (1 :> PreloadRow(1))
  /\ nextId = 2
  /\ fts = {} /\ now = StartMs /\ txn = NoTxn /\ imp = ImpIdle /\ last = NoCall
  /\ hs = [h \in Handlers |-> HandlerIdle] /\ memories = <<>>
  /\ boot = Booted /\ ftsOK = FALSE

NextRecall ==
  \/ \E it \in RecallItems :
       nextId <= MaxRecallIds /\ OwnedImport(<<"u", "1">>, it) /\ UNCHANGED hs
  \/ \E a \in RecallArgs : RecallStart(a)
  \/ RecallSweep
  \/ RecallRank(Undef)
  \/ \E fails \in BOOLEAN : RecallBump(fails)
  \/ RecallReturn
  \/ SearchStart(Undef, 1)
  \/ SearchSweep
  \/ SearchRead(Undef)

RecallSpec == InitRecall /\ [][NextRecall]_vars

\* --------------------------------- EmbedSpec: vectors given to the store
VecDirty == Vec(<<NonFin, Fin(1), NonFin>>)
VecAllBad == Vec(<<NonFin, NonFin>>)
VecEmpty == Vec(<<>>)
VecLong == Vec([i \in 1..(MaxEmbedding + 1) |-> Fin(1)])

Vectors == {Undef, VecX, VecDirty, VecAllBad, VecEmpty, VecLong}

NextEmbed ==
  \/ \E v \in Vectors : /\ nextId <= MaxEmbedIds
                        /\ Insert([PlainInsert EXCEPT !.embedding = v])
                        /\ UNCHANGED hs
  \/ \E id \in 1..MaxEmbedIds, v \in Vectors :
       Update(id, [NoPatch EXCEPT !.embedding = v]) /\ UNCHANGED hs
  \/ \E v \in Vectors : /\ nextId <= MaxEmbedIds
                        /\ ImportBegin(<<[GoodItem EXCEPT !.embedding = v]>>)
                        /\ UNCHANGED hs
  \/ ImportItem("none") /\ UNCHANGED hs
  \/ ImportCommit /\ UNCHANGED hs

EmbedSpec == Init /\ [][NextEmbed]_vars

\* ------------------------------------------------------------ the claims
SubjectOnly(X) == [NoPatch EXCEPT !.subject = Str(X)]

\* C1: right after insert(S, C) returned an id, get(id) returns a record
\* with that id, subject S, content C and dateUpdated = dateCreated, and so
\* does list() when the store holds no more than `limit` records; and the
\* record stays as it is until a call that mutates records (update, delete,
\* cleanupExpired) runs.
IsInserted(it, id, o) ==
  /\ "id" \in DOMAIN it
  /\ it.id = id
  /\ it.subject = o.subject.s
  /\ it.content = o.content.s
  /\ it.dateUpdated = it.dateCreated

C1_InsertThenGet ==
  [][/\ \A o \in InsertInputs :
          (Insert(o) /\ last'.ok) =>
             \E id \in AllIds :
               /\ id = last'.id
               /\ IsInserted(GetResult(id)', id, o)
               /\ Cardinality(DOMAIN rows') <= 200 =>
                    \A s \in ListResults(200)' :
                      \E i \in 1..Len(s) : IsInserted(rowToItem(rows'[s[i]]), id, o)
     /\ last'.op \notin {"update", "delete", "cleanupExpired"} =>
          \A i \in Ids : i \in DOMAIN rows' /\ rows'[i] = rows[i]]_vars

\* a record was inserted next to another one, after the clock moved on
C1_Witness ==
  /\ last.op = "insert" /\ last.ok
  /\ Cardinality(Ids) = 2
  /\ rows[last.id].date_created > StartMs
  /\ rows[last.id].subject = SubjB

\* C6: update(id, {subject: X}) changes the subject and dateUpdated of the
\* record id and nothing else: content, expiresAt, embedding, id and
\* dateCreated stay, and so does every other record.
C6_UpdateSubjectOnly ==
  [][\A id \in AllIds : \A X \in {SubjA, SubjB} :
       (id \in Ids /\ Update(id, SubjectOnly(X))) =>
          /\ DOMAIN rows' = DOMAIN rows
          /\ \A j \in Ids \ {id} : rows'[j] = rows[j]
          /\ rows'[id] = [rows[id] EXCEPT !.subject = X,
                                          !.date_updated = rows'[id].date_updated]]_vars

\* a record that holds a vector and an expiry had its subject replaced
C6_Witness ==
  /\ last.op = "update"
  /\ \E id \in Ids :
       /\ rows[id].subject = SubjA
       /\ rows[id].content = ContX
       /\ rows[id].embedding = VecX
       /\ rows[id].expires_at.k = "iso"
       /\ rows[id].date_updated > rows[id].date_created

\* C7: update(id, patch) with a patch of no fields changes no field of any
\* record, dateUpdated of the record id included.
C7_EmptyPatchNoOp ==
  [][\A id \in AllIds : Update(id, NoPatch) => rows' = rows]_vars

\* the instant an expiresAt text denotes is at or before t
AtOrBefore(e, t) == e.k # "null" /\ e.ms <= t

\* the ids get(), list() and search() can return
Visible ==
  {i \in AllIds : "id" \in DOMAIN GetResult(i)}
  \cup UNION {{s[i] : i \in 1..Len(s)} : s \in ListResults(200)}
  \cup UNION {{r.ids[i] : i \in 1..Len(r.ids)} : r \in SearchResults(Undef, 1, Undef)}

\* C2: a record whose expiresAt is in the past (inserted with ttlDays = -1,
\* or given such an expiresAt) stays in the store until cleanupExpired() or
\* an explicit delete removes it, and once cleanupExpired() has run neither
\* get() nor list() nor search() returns it.
C2_LazyExpiry ==
  [][/\ \A i \in Ids :
          (AtOrBefore(rows[i].expires_at, now) /\ i \notin DOMAIN rows')
             => last'.op \in {"cleanupExpired", "delete"}
     /\ CleanupExpired =>
          \A i \in Ids : AtOrBefore(rows[i].expires_at, now) => i \notin Visible']_vars

\* C3: when cleanupExpired() completes no record in the store has an
\* expiresAt at or before the sweep time, and every record with a null or
\* later expiresAt is as it was.
C3_SweepExact ==
  [][CleanupExpired =>
       /\ \A i \in DOMAIN rows' : ~AtOrBefore(rows'[i].expires_at, now)
       /\ \A i \in Ids :
            ~AtOrBefore(rows[i].expires_at, now) => (i \in DOMAIN rows' /\ rows'[i] = rows[i])]_vars

\* the two halves of C3, apart
C3_NoPastLeft ==
  [][CleanupExpired => \A i \in DOMAIN rows' : ~AtOrBefore(rows'[i].expires_at, now)]_vars
C3_FutureKept ==
  [][CleanupExpired =>
       \A i \in Ids :
         ~AtOrBefore(rows[i].expires_at, now) => (i \in DOMAIN rows' /\ rows'[i] = rows[i])]_vars

\* C4: importAll is all-or-nothing.  When an item's insert fails, the catch
\* leaves none of the batch's rows in the store, the rows are those the
\* store held at BEGIN, and the call rejects with the insert's error,
\* whether the ROLLBACK succeeded or failed; when no insert fails, COMMIT
\* leaves every item of the batch stored, and the call resolves.
StoredAs(row, it) ==
  /\ row.subject = it.subject.s
  /\ row.content = it.content.s
  /\ row.expires_at = (IF it.expiresAt.k = "undef" THEN SqlNull ELSE it.expiresAt)
  /\ parseEmbedding(row.embedding) = normalizeEmbedding(it.embedding)

C4_ImportAllOrNothing ==
  [][/\ ImportRollback =>
          /\ \A j \in 1..Len(imp.ids) : imp.ids[j] \notin DOMAIN rows'
          /\ txn.k = "open" => rows' = txn.rows
          /\ txn.k = "none" => rows' = rows
          /\ imp'.pc = "rejected" /\ imp'.err = imp.err
     /\ (ImportCommit /\ txn.k = "open") =>
          /\ imp'.pc = "resolved"
          /\ Len(imp.ids) = Len(imp.items)
          /\ \A j \in 1..Len(imp.items) :
               /\ imp.ids[j] \in DOMAIN rows'
               /\ StoredAs(rows'[imp.ids[j]], imp.items[j])]_vars

\* a batch was rolled back after one of its rows had been inserted, in a
\* store that held a row before
C4_Witness ==
  /\ imp.pc = "rejected" /\ imp.err = "constraint" /\ imp.rollback = "ok"
  /\ Cardinality(Ids) = 1
  /\ nextId = 4

\* the same, with the ROLLBACK failing
C4_WitnessRollbackFailed ==
  /\ imp.pc = "rejected" /\ imp.err = "full" /\ imp.rollback = "failed"
  /\ Cardinality(Ids) = 1
  /\ nextId >= 4

\* C5 (as stated): a batch of 3 valid items and 1 item with an over-long
\* subject leaves no new row in the store.
C5_OverlongBatchStoresNothing ==
  [][(ImportCommit /\ HasOverlong(imp.items)) =>
        \A j \in 1..Len(imp.ids) : imp.ids[j] \notin DOMAIN rows']_vars

\* C5 (amended): given to the memory.import tool, such a batch is rejected
\* by the input schema: no statement runs, the rows are as they were.
C5_ToolRejectsOverlongBatch ==
  [][\A b \in {BatchOk, BatchLong} :
       (ToolImport(b) /\ HasOverlong(b)) =>
          /\ rows' = rows
          /\ txn' = txn
          /\ nextId' = nextId
          /\ imp'.pc = "rejected"]_vars

\* the tool turned the batch of 3 + 1 down in a store that holds a row
C5_Witness ==
  /\ last.op = "memory.import"
  /\ imp.pc = "rejected" /\ imp.err = "validation"
  /\ Cardinality(Ids) = 1

\* the ids of a result
IdSet(s) == {s[i] : i \in 1..Len(s)}

\* C8: search(query, k, embedding) returns at most k items, with or
\* without a query text, with or without a query vector.
C8_AtMostK ==
  last.op = "search" =>
    \A r \in SearchResults(last.query, last.k, last.embedding) : Len(r.ids) <= last.k

\* t contains q, letters compared after lower(_)
Contains(t, q, lower(_)) ==
  \E i \in 0..(Len(t) - Len(q)) : \A j \in 1..Len(q) : lower(t[i + j]) = lower(q[j])

\* a substring scan of subject and content for q, bounded by `limit`, most
\* recently updated first: the sets of ids it may find
ScanResults(q, limit, lower(_)) ==
  LET M == {i \in Ids : Contains(rows[i].subject, q, lower) \/ Contains(rows[i].content, q, lower)}
  IN {R \in SUBSET M :
        /\ Cardinality(R) = Min(limit, Cardinality(M))
        /\ \A i \in R, j \in M \ R : rows[i].date_updated >= rows[j].date_updated}

\* search took the LIKE path: there is a query text, and the index is
\* absent or turns the text down
FellBack ==
  /\ last.op = "search"
  /\ Len(trimmedQuery(last.query)) > 0
  /\ ~(ftsOK /\ FtsAccepts(trimmedQuery(last.query)))

\* C10 (as stated): on the LIKE path search(text) returns the records a
\* case-insensitive substring scan with the same fetch limit finds.
C10_FallbackIsCaseInsensitiveScan ==
  (FellBack /\ last.embedding = Undef) =>
    \A r \in SearchResults(last.query, last.k, last.embedding) :
      /\ r.path = "like"
      /\ IdSet(r.ids) \in ScanResults(trimmedQuery(last.query), last.k * MultText, UnicodeLower)

\* C10 (amended): the scan ignores the case of ASCII letters only.
C10_FallbackIsAsciiScan ==
  (FellBack /\ last.embedding = Undef) =>
    \A r \in SearchResults(last.query, last.k, last.embedding) :
      /\ r.path = "like"
      /\ IdSet(r.ids) \in ScanResults(trimmedQuery(last.query), last.k * MultText, AsciiLower)

\* search("axb ") fell back in a store of more rows "AxB" than the fetch limit
C10_Witness ==
  /\ FellBack /\ last.embedding = Undef
  /\ trimmedQuery(last.query) = <<"a", "x", "b">>
  /\ Cardinality({i \in Ids : rows[i].subject = TextAxB}) > last.k * MultText
  /\ \E r \in SearchResults(last.query, last.k, last.embedding) : Len(r.ids) = last.k * MultText

\* C9: no item the memory-search tool returns has an expiresAt at or before
\* the time its handler started, however the handler interleaves with
\* memory-create and memory-update calls.
C9_SearchToolReturnsNoExpired ==
  hs.search.pc = "done" =>
    \A i \in 1..Len(hs.search.items) :
      ~AtOrBefore(hs.search.items[i].expires_at, hs.search.started)

\* C8 (the tool): memory-search returns at most k items
C8_ToolAtMostK ==
  hs.search.pc = "done" => Len(hs.search.items) <= hs.search.k

\* a query that is the empty string or white space only
Blank(q) == q.k = "str" /\ Len(Trim(q.s)) = 0

ItemIds(items) == [i \in 1..Len(items) |-> items[i].id]

\* C11: a search with an empty or whitespace-only query returns what the
\* same search returns with the query omitted: store.search with the same
\* k and vector, and the memory-search tool with the same k.
C11_BlankQueryIsNoText ==
  [][\A p \in Providers :
       (SearchRead(p) /\ Blank(hs.search.query)) =>
          /\ \A e \in {Undef, VecY} :
               {r.ids : r \in SearchResults(hs.search.query, hs.search.k, e)}
                 = {r.ids : r \in SearchResults(Undef, hs.search.k, e)}
          /\ ItemIds(hs'.search.items)
               \in {r.ids : r \in SearchResults(Undef, hs.search.k, Undef)}]_vars

\* the store's half of C11
C11_StoreBlankQueryIsNoText ==
  [][\A p \in Providers :
       (SearchRead(p) /\ Blank(hs.search.query)) =>
          \A e \in {Undef, VecY} :
            {r.ids : r \in SearchResults(hs.search.query, hs.search.k, e)}
              = {r.ids : r \in SearchResults(Undef, hs.search.k, e)}]_vars

\* C12: when the provider is absent or throws, memory-create, memory-update
\* and memory-search go on and do what they do without a vector: the row
\* is written with the embedding the call would write given none, the search
\* returns what store.search returns given none, and the handler does not
\* end with an error.
C12_EmbeddingFailureNeverAborts ==
  [][\A p \in {Undef, Throws} :
       /\ (hs.create.pc = "insert" /\ CreateInsert(p)) =>
            /\ hs'.create.pc = "get"
            /\ rows' = (nextId :> NewRow(nextId, rows,
                                        [subject |-> Str(hs.create.args.subject),
                                         content |-> Str(hs.create.args.content),
                                         ttlDays |-> ToolTtl(hs.create.args.ttlDays),
                                         embedding |-> Undef], now)) @@ rows
       /\ (hs.update.pc \in {"embed", "update"} /\ UpdateWrite("update", p)) =>
            /\ hs'.update.pc = "get"
            /\ hs.update.args.id \in Ids =>
                 rows'[hs.update.args.id]
                   = ApplyFields(rows[hs.update.args.id],
                                 PatchFields(ToolPatch(hs.update.args, Undef), now))
       /\ (hs.search.pc = "search" /\ SearchRead(p)) =>
            /\ hs'.search.pc = "done"
            /\ ItemIds(hs'.search.items)
                 \in {r.ids : r \in SearchResults(hs.search.query, hs.search.k, Undef)}]_vars

\* a provider threw while memory-create ran; the record is stored without
\* a vector and the handler is about to read it back
C12_Witness ==
  /\ hs.create.pc = "get" /\ hs.create.warned
  /\ hs.create.id \in Ids /\ rows[hs.create.id].embedding = SqlNull

\* C13: every stored embedding is absent, or a vector of at least one and
\* at most 4096 components, all of them finite numbers.
C13_StoredEmbeddingsClean ==
  \A i \in Ids :
    \/ rows[i].embedding = SqlNull
    \/ /\ rows[i].embedding.k = "vec"
       /\ Len(rows[i].embedding.v) >= 1
       /\ Len(rows[i].embedding.v) <= MaxEmbedding
       /\ \A j \in 1..Len(rows[i].embedding.v) : rows[i].embedding.v[j].f

\* a vector of 4097 components was stored cut to 4096, next to a vector
\* that lost its non-finite components
C13_Witness ==
  /\ \E i \in Ids : rows[i].embedding.k = "vec" /\ Len(rows[i].embedding.v) = MaxEmbedding
  /\ \E i \in Ids : rows[i].embedding = Vec(<<Fin(1)>>)

C15_DatesOrderedIdAndCreatedFixed ==
  [][/\ \A i \in DOMAIN rows' :
          /\ rows'[i].id = i
          /\ rows'[i].date_updated >= rows'[i].date_created
     /\ \A i \in Ids \cap DOMAIN rows' :
          /\ rows'[i].id = rows[i].id
          /\ rows'[i].date_created = rows[i].date_created]_vars

\* a record updated after the clock moved, next to an imported one
C15_Witness ==
  /\ last.op = "update"
  /\ \E i \in Ids : rows[i].date_updated > rows[i].date_created
  /\ \E i \in Ids : rows[i].expires_at = PastIso

\* C16: delete(id) and update(id, patch) with an id no row has resolve and
\* leave the table and the index as they were; after delete(id) no row has
\* the id, so a second delete(id) is such a call and changes nothing.
C16_MissingIdIsNoOp ==
  [][\A id \in 1..MaxFtsIds :
       /\ Delete(id) =>
            /\ last' = [op |-> "delete"]
            /\ id \notin DOMAIN rows'
            /\ Restrict(rows', DOMAIN rows' \ {id}) = rows'
            /\ id \notin Ids => (rows' = rows /\ fts' = fts)
       /\ \A p \in FtsPatches :
            Update(id, p) =>
              /\ last' = [op |-> "update"]
              /\ id \notin Ids => (rows' = rows /\ fts' = fts)]_vars

\* the last call was a delete, and every id handed out so far is still
\* in the table: the delete named an id no row had
C16_Witness ==
  /\ last.op = "delete"
  /\ nextId > 1
  /\ Ids = 1..(nextId - 1)
  /\ (1..MaxFtsIds) \ Ids # {}
  /\ fts # {}

\* C17: when the table cannot be created, the store's ready promise does
\* not resolve, and no call gets as far as running a statement.
C17_FailedSchemaNeverReady ==
  boot.fatal => ~Ready

\* the rows a term finds through the index, and the rows whose text as it
\* is now holds the term (what an index built from the table would find)
IndexFinds(term) == {i \in Ids : FtsMatch(fts, rows[i].rowid, term)}
TextHolds(term) ==
  {i \in Ids :
     FtsMatch(Postings(rows[i].rowid, rows[i].subject, rows[i].content), rows[i].rowid, term)}

\* C18: for every term the index finds exactly the rows whose current
\* subject or content holds it.
C18_IndexInLockstep ==
  \A term \in FtsTerms : IndexFinds(term) = TextHolds(term)

\* C19: whatever arguments memory-search accepts, the k its handler gives
\* store.search is an integer from 1 to 20.
C19_StoreSearchGetsKUpTo20 ==
  (last.op = "search" /\ hs.search.pc = "done") => last.k \in 1..MaxK

\* C20: update(id, patch) with both ttlDays and expiresAt leaves the
\* record with the expiresAt of the patch, not with the call time plus
\* ttlDays days.
C20_ExplicitExpiryWins ==
  [][\A id \in AllIds :
       (id \in Ids /\ Update(id, BothPatch)) =>
          /\ rows'[id].expires_at = BothPatch.expiresAt
          /\ rows'[id].expires_at # ExpiryFromTtl(BothPatch.ttlDays, now)]_vars

\* a record carries the explicit expiry of such a patch
C20_Witness ==
  /\ last.op = "update"
  /\ \E i \in Ids : rows[i].expires_at = LaterIso


WithVector == {i \in Ids : rows[i].embedding.k # "null"}
NewerThan(i) == {j \in WithVector : rows[j].date_updated > rows[i].date_updated}
NotOlderThan(i) == {j \in WithVector \ {i} : rows[j].date_updated >= rows[i].date_updated}
SimTo(qe, i) == cosineSimilarity(qe, rowToItem(rows[i]).embedding)
C26_ExpiryIsCallTimePlusTtl ==
  [][\A o \in TtlInserts :
       Insert(o) =>
         rows'[nextId].expires_at =
           IF o.ttlDays.k = "num"
             THEN Iso(now + (o.ttlDays.halves * DayMs) \div 2)
             ELSE SqlNull]_vars

\* the part of C26 the store keeps: whole days, and null without a finite ttl
C26_WholeDaysAreExact ==
  [][\A o \in TtlInserts :
       (Insert(o) /\ (o.ttlDays.k = "num" => o.ttlDays.halves % 2 = 0)) =>
         rows'[nextId].expires_at =
           IF o.ttlDays.k = "num"
             THEN Iso(now + (o.ttlDays.halves \div 2) * DayMs)
             ELSE SqlNull]_vars


\* C27: cosineSimilarity(a, b) is always a number, and it is 0 whenever a
\* vector is absent or empty or when, over the first min(len(a), len(b))
\* positions at which both components are finite, a vector has norm zero
IsNumber(s) == s.na > 0 /\ s.nb > 0
IsZero(s) == IsNumber(s) /\ s.dot = 0
Compared(a, b) == {i \in 1..Min(Len(a.v), Len(b.v)) : a.v[i].f /\ b.v[i].f}
ZeroNorm(v, P) == \A i \in P : v.v[i].x = 0
C27_SimilarityZeroCasesNoError ==
  last.op = "cosineSimilarity" =>
    LET a == last.a
        b == last.b
        s == cosineSimilarity(a, b)
    IN /\ IsNumber(s)
       /\ (a.k # "vec" \/ b.k # "vec") => IsZero(s)
       /\ (a.k = "vec" /\ b.k = "vec") =>
            /\ (Len(a.v) = 0 \/ Len(b.v) = 0) => IsZero(s)
            /\ (ZeroNorm(a, Compared(a, b)) \/ ZeroNorm(b, Compared(a, b))) => IsZero(s)

\* two vectors of unequal length whose only shared finite position holds a
\* zero of one of them
C27_Witness ==
  /\ last.op = "cosineSimilarity"
  /\ last.a.k = "vec" /\ last.b.k = "vec"
  /\ Len(last.a.v) = 2 /\ Len(last.b.v) = 1
  /\ last.a.v[1] = Fin(0) /\ last.a.v[2] = Fin(1) /\ last.b.v[1] = Fin(1)


\* C28: what insert, update and delete calls that resolved have done is still
\* in the store after a concurrent importAll fails: its rollback removes the
\* rows of the import and nothing else
ImportedIds == {imp.ids[i] : i \in 1..Len(imp.ids)}
C28_RollbackKeepsResolvedCalls ==
  [][ImportRollback => rows' = [id \in Ids \ ImportedIds |-> rows[id]]]_vars


\* C24: the delete of an expiry sweep never runs while an import's
\* transaction is open: it runs before the BEGIN or after the COMMIT/ROLLBACK
C24_SweepOutsideImportTransaction ==
  [][CleanupExpired => txn.k = "none"]_vars

\* what follows from a sweep inside the transaction: a row the sweep deleted
\* is in the store again once the import has rolled back
C24_SweptRowStaysGone ==
  [][ImportRollback => \A id \in DOMAIN rows' : id \in Ids]_vars


\* C30: when importAll of an empty store has stored the items of an
\* exportAll(), the exportAll() of that store has the same subject, content,
\* expiresAt and embedding as often as the items have, and every record has
\* an id none of the items has and timestamps taken at the import
Kept(item) ==
  <<item.subject, item.content, item.expiresAt, item.embedding>>
Times(items, t) == Cardinality({i \in 1..Len(items) : Kept(items[i]) = t})
SameKept(a, b) ==
  /\ Len(a) = Len(b)
  /\ \A i \in 1..Len(a) : Times(a, Kept(a[i])) = Times(b, Kept(a[i]))
Exported == [i \in 1..Len(imp.items) |-> [imp.items[i] EXCEPT !.subject = @.s, !.content = @.s]]
C30_ExportImportRoundTrip ==
  [][(ImportCommit /\ txn.k = "open" /\ txn.rows = <<>>) =>
       \A out \in ExportAllOf(rows') :
         /\ SameKept(Exported, out)
         /\ \A i \in 1..Len(out), j \in 1..Len(Exported) :
              /\ out[i].id # Exported[j].id
              /\ out[i].dateCreated >= Exported[j].dateUpdated
         /\ \A i \in 1..Len(out) : out[i].dateCreated = out[i].dateUpdated]_vars

\* two records were exported and imported again after the clock moved on,
\* one of them with an expiry text that is no ISO date
C30_Witness ==
  /\ imp.pc = "resolved"
  /\ Ids = {3, 4}
  /\ \A id \in Ids : rows[id].date_created > StartMs
  /\ \E id \in Ids : rows[id].expires_at.k = "rfc"
  /\ \E id \in Ids : rows[id].embedding.k = "vec"


\* C29: once no memory-update call is under way, the stored embedding of a
\* record is absent or is the embedding of the record's subject and content
UpdatesCompleted == \A h \in UpdateCalls : hs[h].pc \in {"idle", "done"}
EmbeddingIsCurrent(id) ==
  \/ rows[id].embedding.k = "null"
  \/ parseEmbedding(rows[id].embedding)
       = normalizeEmbedding(embedDocument(rows[id].subject, rows[id].content))
C29_EmbeddingMatchesText ==
  UpdatesCompleted => \A id \in Ids : EmbeddingIsCurrent(id)


\* C21: every score of a recall is a number in [0,1]; the items returned
\* have distinct ids, are at most topk, and come in non-increasing score order
InUnitInterval(s) == ~s.nan /\ s.num >= 0 /\ s.num <= 20 * s.w * s.q
C21_ScoresInUnitIntervalSorted ==
  hs.recall.pc \in {"bump", "done"} =>
    LET scored == hs.recall.scored
    IN /\ Len(scored) <= hs.recall.topk
       /\ \A i \in 1..Len(scored) : InUnitInterval(scored[i].score)
       /\ \A i, j \in 1..Len(scored) : i < j =>
            /\ scored[i].id # scored[j].id
            /\ scored[i].score.num * scored[j].score.q
                 >= scored[j].score.num * scored[i].score.q


\* C22: every item memory.recall returns has its last_used_at set to the
\* time of the call and its use count incremented, unless that write failed;
\* the items are returned whether or not the writes failed; memory-search of
\* the minimal generation leaves the records it returns as they were
RecallTouched(i) ==
  LET e == hs.recall.scored[i]
  IN /\ e.id \in DOMAIN memories
     /\ memories[e.id].last_used_at = Iso(hs.recall.at)
     /\ memories[e.id].use_count = e.m.useCount + 1
RecallUntouched(i) ==
  LET e == hs.recall.scored[i]
  IN /\ e.id \in DOMAIN memories
     /\ OwnedRowToItem(memories[e.id]) = e.m
RecallBookkeeping ==
  hs.recall.pc = "done" =>
    /\ hs.recall.response.items = [i \in 1..Len(hs.recall.scored) |-> hs.recall.scored[i].m]
    /\ Len(hs.recall.bumped) = Len(hs.recall.scored)
    /\ \A i \in 1..Len(hs.recall.scored) :
         IF hs.recall.bumped[i] THEN RecallTouched(i) ELSE RecallUntouched(i)
C22_RecallTouchesWhatItReturns ==
  /\ RecallBookkeeping
  /\ hs.search.pc = "done" =>
       \A i \in 1..Len(hs.search.items) :
         rows[hs.search.items[i].id].date_updated < hs.search.started
C22_Witness ==
  /\ hs.recall.pc = "done"
  /\ \E i, j \in 1..Len(hs.recall.scored) :
       /\ hs.recall.bumped[i] /\ ~hs.recall.bumped[j]
       /\ hs.recall.scored[i].m.lastUsedAt = Iso(StartMs - DayMs)
  /\ hs.search.pc = "done" /\ Len(hs.search.items) > 0
\* the claim as stated: the search tool advances the timestamp as well
C22_EveryRetrievalTouches ==
  /\ RecallBookkeeping
  /\ hs.search.pc = "done" =>
       \A i \in 1..Len(hs.search.items) :
         rows[hs.search.items[i].id].date_updated >= hs.search.started

====
